---- MODULE Spec2Model ----
(***************************************************************************)
(* Model of the commit operations of the data-stewardship assistant:       *)
(*   utils/record_operations.py   insert_record, update_record             *)
(*   utils/affiliation_updates.py set_primary_affiliation and its helpers  *)
(* The warehouse (Snowflake) is modelled as four tables, each a sequence   *)
(* of rows in insertion order; a row is a function from column names to    *)
(* values.  Strings are sequences of one-character strings so that the     *)
(* conversions of the code (strip, quote escaping, [:2], upper, zfill,     *)
(* CAST, TRY_TO_NUMBER) are computed, not assumed.                         *)
(***************************************************************************)
EXTENDS Integers, Sequences, FiniteSets, TLC

(***************************************************************************)
(* Python / SQL values.  Every value has the same three fields so that any *)
(* two values can be compared.                                             *)
(***************************************************************************)
None == [t |-> "None", s |-> <<>>, n |-> 0]
MkStr(chars) == [t |-> "str", s |-> chars, n |-> 0]
MkInt(k) == [t |-> "int", s |-> <<>>, n |-> k]
MkBool(b) == [t |-> "bool", s |-> <<>>, n |-> IF b THEN 1 ELSE 0]

PyTrue == MkBool(TRUE)
PyFalse == MkBool(FALSE)

\* Python truthiness: `if x`, `not x`, `x if x else 0`
Truthy(v) ==
    CASE v.t = "None" -> FALSE
      [] v.t = "str"  -> v.s # <<>>
      [] v.t = "int"  -> v.n # 0
      [] OTHER        -> v.n = 1

DIGITS == <<"0", "1", "2", "3", "4", "5", "6", "7", "8", "9">>

IsDigit(c) == \E i \in 1..10 : DIGITS[i] = c

DigitVal(c) == (CHOOSE i \in 1..10 : DIGITS[i] = c) - 1

RECURSIVE NatDigits(_)
\* decimal digits of a natural number, as str(n) gives them
NatDigits(k) ==
    IF k < 10 THEN <<DIGITS[k + 1]>>
    ELSE NatDigits(k \div 10) \o <<DIGITS[(k % 10) + 1]>>

IntDigits(k) == IF k < 0 THEN <<"-">> \o NatDigits(0 - k) ELSE NatDigits(k)

IsDigits(chars) == chars # <<>> /\ \A i \in 1..Len(chars) : IsDigit(chars[i])

RECURSIVE DigitsVal(_)
\* value of a non-empty digit string (int("0007") = 7)
DigitsVal(chars) ==
    IF Len(chars) = 1 THEN DigitVal(chars[1])
    ELSE 10 * DigitsVal(SubSeq(chars, 1, Len(chars) - 1)) + DigitVal(chars[Len(chars)])

\* Python str(x)
PyStr(v) ==
    CASE v.t = "None" -> <<"N", "o", "n", "e">>
      [] v.t = "str"  -> v.s
      [] v.t = "int"  -> IntDigits(v.n)
      [] v.t = "float" -> v.s
      [] OTHER        -> IF v.n = 1 THEN <<"T", "r", "u", "e">>
                                    ELSE <<"F", "a", "l", "s", "e">>

RECURSIVE ZFill(_, _)
\* str.zfill(width): pad with zeros on the left (no sign in the uses here)
ZFill(chars, width) ==
    IF Len(chars) >= width THEN chars ELSE ZFill(<<"0">> \o chars, width)

IsSpace(c) == c \in {" ", "\t", "\n", "\r"}

RECURSIVE LStrip(_)
LStrip(chars) ==
    IF chars # <<>> /\ IsSpace(chars[1]) THEN LStrip(Tail(chars)) ELSE chars

RECURSIVE RStrip(_)
RStrip(chars) ==
    IF chars # <<>> /\ IsSpace(chars[Len(chars)])
    THEN RStrip(SubSeq(chars, 1, Len(chars) - 1)) ELSE chars

\* str.strip()
Strip(chars) == RStrip(LStrip(chars))

StartsWith(chars, prefix) ==
    Len(chars) >= Len(prefix) /\ SubSeq(chars, 1, Len(prefix)) = prefix

RECURSIVE Replace(_, _, _)
\* str.replace(old, new) / SQL REPLACE: every occurrence, left to right
Replace(chars, old, new) ==
    IF chars = <<>> THEN <<>>
    ELSE IF StartsWith(chars, old)
         THEN new \o Replace(SubSeq(chars, Len(old) + 1, Len(chars)), old, new)
         ELSE <<chars[1]>> \o Replace(Tail(chars), old, new)

LOWER == <<"a", "b", "c", "d", "e", "f", "g", "h", "i", "j", "k", "l", "m",
           "n", "o", "p", "q", "r", "s", "t", "u", "v", "w", "x", "y", "z">>
UPPER == <<"A", "B", "C", "D", "E", "F", "G", "H", "I", "J", "K", "L", "M",
           "N", "O", "P", "Q", "R", "S", "T", "U", "V", "W", "X", "Y", "Z">>

UpperChar(c) ==
    IF \E i \in 1..26 : LOWER[i] = c
    THEN UPPER[CHOOSE i \in 1..26 : LOWER[i] = c] ELSE c

LowerChar(c) ==
    IF \E i \in 1..26 : UPPER[i] = c
    THEN LOWER[CHOOSE i \in 1..26 : UPPER[i] = c] ELSE c

\* str.upper(), str.lower()
Upper(chars) == [i \in 1..Len(chars) |-> UpperChar(chars[i])]
Lower(chars) == [i \in 1..Len(chars) |-> LowerChar(chars[i])]

\* s[:k]
Prefix(chars, k) == SubSeq(chars, 1, IF Len(chars) < k THEN Len(chars) ELSE k)

\* dict.get(key, default); a dict is a function from its keys
Get(d, key, default) == IF key \in DOMAIN d THEN d[key] ELSE default

EmptyDict == [k \in {} |-> None]


(***************************************************************************)
(* Bounds of the model.                                                    *)
(***************************************************************************)
\* no table grows beyond this many rows
MaxRows == 2

(***************************************************************************)
(* String literals of the code, as character sequences.                    *)
(***************************************************************************)
QUOTE == <<"'">>
QUOTEQUOTE == <<"'", "'">>
SHA_ == <<"S", "H", "A", "_">>
AISEARCH_ == <<"A", "I", "S", "E", "A", "R", "C", "H", "_">>
N_A == <<"N", "/", "A">>
US == <<"U", "S">>
USA == <<"U", "S", "A">>
UNITED_STATES == <<"U", "N", "I", "T", "E", "D", " ", "S", "T", "A", "T", "E", "S">>
UNITED_STATES_OF_AMERICA == UNITED_STATES \o <<" ", "O", "F", " ", "A", "M", "E", "R", "I", "C", "A">>

\* width of the numeric suffix of a generated Organization identifier
ZFILL_WIDTH == 9

(***************************************************************************)
(* record_operations.py: label -> column mappings.                         *)
(***************************************************************************)
HCP_FIELD_MAPPING ==
    ("Name" :> "NAME") @@ ("First Name" :> "FIRST_NM") @@ ("Last Name" :> "LAST_NM") @@
    ("NPI" :> "NPI") @@ ("Degree" :> "DEGREE") @@
    ("Address Line1" :> "ADDRESS1") @@ ("Address Line 1" :> "ADDRESS1") @@
    ("Address Line2" :> "ADDRESS2") @@ ("Address Line 2" :> "ADDRESS2") @@
    ("City" :> "CITY") @@ ("State" :> "STATE") @@
    ("ZIP" :> "ZIP") @@ ("ZIP Code" :> "ZIP")

HCO_FIELD_MAPPING ==
    ("Name" :> "NAME") @@
    ("Address Line1" :> "ADDRESS1") @@ ("Address Line 1" :> "ADDRESS1") @@
    ("Address Line2" :> "ADDRESS2") @@ ("Address Line 2" :> "ADDRESS2") @@
    ("City" :> "CITY") @@ ("State" :> "STATE") @@
    ("ZIP" :> "ZIP") @@ ("ZIP Code" :> "ZIP") @@
    ("Country" :> "COUNTRY")

\* a mapping that also knows the label "Primary Affiliation"
get_field_to_db_mapping_with_pointer(entity_type) ==
    IF entity_type = "HCP"
    THEN ("Primary Affiliation" :> "PRIMARY_AFFL_HCO_ACCOUNT_ID") @@ HCP_FIELD_MAPPING
    ELSE ("Primary Affiliation" :> "PRIMARY_AFFL_ACCOUNT_ID") @@ HCO_FIELD_MAPPING

get_field_to_db_mapping(entity_type) ==
    IF entity_type = "HCP" THEN HCP_FIELD_MAPPING ELSE HCO_FIELD_MAPPING

\* TABLE_NAME of get_table_info
get_table_info(entity_type) == IF entity_type = "HCP" THEN "NPI" ELSE "HCO"

(***************************************************************************)
(* The warehouse tables.  The pointer columns are the ones                 *)
(* update_hcp_primary_affiliation / update_hco_primary_affiliation write.  *)
(***************************************************************************)
NPI_COLUMNS ==
    {"ID", "NAME", "FIRST_NM", "LAST_NM", "NPI", "DEGREE", "ADDRESS1", "ADDRESS2",
     "CITY", "STATE", "ZIP", "PRIMARY_AFFL_HCO_ACCOUNT_ID"}

HCO_COLUMNS ==
    {"ID", "NAME", "ADDRESS1", "ADDRESS2", "CITY", "STATE", "ZIP", "COUNTRY",
     "PRIMARY_AFFL_ACCOUNT_ID"}

TableColumns(table_name) == IF table_name = "NPI" THEN NPI_COLUMNS ELSE HCO_COLUMNS

PointerColumn(table_name) ==
    IF table_name = "NPI" THEN "PRIMARY_AFFL_HCO_ACCOUNT_ID" ELSE "PRIMARY_AFFL_ACCOUNT_ID"

\* a row holding `written` in its columns and NULL in every other column
MkRow(columns, written) == [c \in columns |-> Get(written, c, None)]

\* a storage call as the recording session sees it
Call(stmt, table_name, written, raised) ==
    [stmt |-> stmt, table |-> table_name, columns |-> <<>>, written |-> written,
     raised |-> raised]

\* an INSERT or UPDATE with its column list as the statement names it
Write(stmt, table_name, columns, written, raised) ==
    [stmt |-> stmt, table |-> table_name, columns |-> columns, written |-> written,
     raised |-> raised]

NoDuplicates(seq) == \A i, j \in 1..Len(seq) : seq[i] = seq[j] => i = j

(***************************************************************************)
(* SQL text the code builds, as the warehouse reads it.                    *)
(***************************************************************************)
Literal(kind, text) == [kind |-> kind, text |-> text]

RECURSIVE QuotesPaired(_)
\* inside '...': every quote must be one half of a '' pair
QuotesPaired(text) ==
    IF text = <<>> THEN TRUE
    ELSE IF StartsWith(text, QUOTEQUOTE) THEN QuotesPaired(SubSeq(text, 3, Len(text)))
    ELSE IF text[1] = "'" THEN FALSE
    ELSE QuotesPaired(Tail(text))

\* does the warehouse accept the literal
LiteralOk(lit) ==
    CASE lit.kind = "NULL"   -> TRUE
      [] lit.kind = "number" -> IsDigits(lit.text)
      [] OTHER               -> QuotesPaired(lit.text)

\* the value the warehouse stores for an accepted literal
LiteralValue(lit) ==
    CASE lit.kind = "NULL"   -> None
      [] lit.kind = "number" -> MkInt(DigitsVal(lit.text))
      [] OTHER               -> MkStr(Replace(lit.text, QUOTEQUOTE, QUOTE))

\* the warehouse's comparison ID = x: a NULL never matches, a number and a
\* string are compared as numbers
CompareFails(a, b) ==
    \/ a.t = "int" /\ b.t = "str" /\ ~IsDigits(b.s)
    \/ a.t = "str" /\ b.t = "int" /\ ~IsDigits(a.s)

SqlEq(a, b) ==
    CASE a.t = "None" \/ b.t = "None" -> FALSE
      [] a.t = "int" /\ b.t = "str"   -> IsDigits(b.s) /\ DigitsVal(b.s) = a.n
      [] a.t = "str" /\ b.t = "int"   -> IsDigits(a.s) /\ DigitsVal(a.s) = b.n
      [] OTHER                        -> a = b

Indices(table) == 1..Len(table)

MaxOf(set, default) ==
    IF set = {} THEN default ELSE CHOOSE m \in set : \A k \in set : k <= m


(***************************************************************************)
(* record_operations.py: insert_record and update_record.                  *)
(***************************************************************************)
\* `if not approved_cols`
no_fields_selected(approved_cols) == approved_cols = <<>>

\* the check on columns_list left out
no_valid_columns_unchecked(columns_list) == FALSE

\* `if not columns_list`
no_valid_columns(columns_list) == columns_list = <<>>

\* the duplicate-column check left out: a later label overwrites an earlier one
already_listed_unchecked(columns_list, db_col_name) == FALSE

\* `db_col_name not in columns_list` fails: the column is already listed
already_listed(columns_list, db_col_name) ==
    \E i \in 1..Len(columns_list) : columns_list[i] = db_col_name

\* the count of updated rows not looked at
record_was_updated_any(rows) == rows >= 0

\* `update_result.rows_updated > 0` of update_record
record_was_updated(rows) == rows > 0

RECURSIVE BuildAssignments(_, _, _, _)
\* the loop over approved_cols; acc holds columns_list and assignments
BuildAssignments(db_column_map, approved_cols, proposed_record, acc) ==
    IF approved_cols = <<>> THEN acc
    ELSE LET col_name == Head(approved_cols)
             rest == Tail(approved_cols)
         IN IF col_name \in DOMAIN db_column_map
            THEN LET db_col_name == db_column_map[col_name]
                     new_value == Get(proposed_record, col_name, None)
                 IN IF ~already_listed(acc.columns_list, db_col_name)
                    THEN BuildAssignments(db_column_map, rest, proposed_record,
                             [columns_list |-> Append(acc.columns_list, db_col_name),
                              assignments |-> (db_col_name :> new_value) @@ acc.assignments])
                    ELSE BuildAssignments(db_column_map, rest, proposed_record, acc)
            ELSE BuildAssignments(db_column_map, rest, proposed_record, acc)

build_assignments(entity_type, approved_cols, proposed_record) ==
    BuildAssignments(get_field_to_db_mapping(entity_type), approved_cols, proposed_record,
                     [columns_list |-> <<>>, assignments |-> EmptyDict])

\* the + 1 left out: the current maximum is handed out again
next_hcp_id_reused(table) ==
    MkInt(MaxOf({table[i]["ID"].n : i \in {j \in Indices(table) : table[j]["ID"].t = "int"}}, 0))

\* SELECT COALESCE(MAX(ID), 0) FROM NPI, then `max_id if max_id else 0`, + 1
next_hcp_id(table) ==
    LET MAX_ID == MaxOf({table[i]["ID"].n : i \in {j \in Indices(table) : table[j]["ID"].t = "int"}}, 0)
        max_id == IF MAX_ID # 0 THEN MAX_ID ELSE 0
    IN MkInt(max_id + 1)

\* WHERE ID LIKE 'SHA_%' (the _ of LIKE stands for any one character)
LikeSHA_(id) == id.t = "str" /\ Len(id.s) >= 4 /\ SubSeq(id.s, 1, 3) = SubSeq(SHA_, 1, 3)

\* the rows the MAX(CAST(REPLACE(ID, 'SHA_', '') AS INTEGER)) query reads
ShaRows(table) == {i \in Indices(table) : LikeSHA_(table[i]["ID"])}

\* CAST(... AS INTEGER) raises on a suffix that is no number
hco_id_query_fails(table) ==
    \E i \in ShaRows(table) : ~IsDigits(Replace(table[i]["ID"].s, SHA_, <<>>))

next_hco_id(table) ==
    LET nums == {DigitsVal(Replace(table[i]["ID"].s, SHA_, <<>>)) : i \in ShaRows(table)}
        MAX_NUM == IF nums = {} THEN None ELSE MkInt(MaxOf(nums, 0))
        max_num == IF Truthy(MAX_NUM) THEN MAX_NUM.n ELSE 0
    IN MkStr(AISEARCH_ \o ZFill(NatDigits(max_num + 1), ZFILL_WIDTH))

\* country_map.get(escaped_val.upper(), escaped_val[:2])
country_code(escaped_val) ==
    IF Upper(escaped_val) \in {USA, UNITED_STATES, UNITED_STATES_OF_AMERICA}
    THEN US ELSE Prefix(escaped_val, 2)

\* one entry of col_values_list
render_value(c, val, entity_type) ==
    IF c = "ID" /\ entity_type = "HCP" THEN Literal("number", PyStr(val))
    ELSE IF val # None /\ Strip(PyStr(val)) # <<>> /\ PyStr(val) # N_A
         THEN LET escaped_val == Replace(PyStr(val), QUOTE, QUOTEQUOTE)
              IN Literal("quoted", IF c = "COUNTRY" THEN country_code(escaped_val)
                                                    ELSE escaped_val)
         ELSE Literal("NULL", <<>>)

InsertOutcome(success, new_id, message, table, storage_calls) ==
    [success |-> success, id |-> new_id, message |-> message,
     table |-> table, calls |-> storage_calls]

\* the handler left without a message
insert_record_except_silent(table, storage_calls) ==
    InsertOutcome(FALSE, None, "", table, storage_calls)

\* `except Exception as e: return (False, None, f"Error inserting record: ...")`
insert_record_except(table, storage_calls) ==
    InsertOutcome(FALSE, None, "Error inserting record", table, storage_calls)

\* fault = k > 0: the k-th storage call of this invocation raises; a message
\* is the fixed part of the text the code returns
insert_record(table, entity_type, approved_cols, proposed_record, fault) ==
    IF no_fields_selected(approved_cols)
    THEN InsertOutcome(FALSE, None, "No fields were selected for insert.", table, <<>>)
    ELSE
    LET built == build_assignments(entity_type, approved_cols, proposed_record)
        TABLE_NAME == get_table_info(entity_type)
        select == Call("SELECT", TABLE_NAME, EmptyDict, FALSE)
        select_raises == fault = 1 \/ (entity_type # "HCP" /\ hco_id_query_fails(table))
        new_id == IF entity_type = "HCP" THEN next_hcp_id(table) ELSE next_hco_id(table)
        columns_list == <<"ID">> \o built.columns_list
        assignments == ("ID" :> new_id) @@ built.assignments
        literals == [c \in DOMAIN assignments |-> render_value(c, assignments[c], entity_type)]
        insert_raises == \/ fault = 2
                         \/ ~NoDuplicates(columns_list)
                         \/ \E c \in DOMAIN literals : ~LiteralOk(literals[c])
        written == [c \in DOMAIN literals |-> LiteralValue(literals[c])]
    IN IF no_valid_columns(built.columns_list)
       THEN InsertOutcome(FALSE, None, "No valid columns found for insert.", table, <<>>)
       ELSE IF select_raises
       THEN insert_record_except(table, <<Call("SELECT", TABLE_NAME, EmptyDict, TRUE)>>)
       ELSE IF insert_raises
       THEN insert_record_except(table,
                <<select, Write("INSERT", TABLE_NAME, columns_list, EmptyDict, TRUE)>>)
       ELSE InsertOutcome(TRUE, new_id, "New record inserted successfully",
                          Append(table, MkRow(TableColumns(TABLE_NAME), written)),
                          <<select, Write("INSERT", TABLE_NAME, columns_list, written, FALSE)>>)

UpdateOutcome(success, message, table, storage_calls) ==
    [success |-> success, id |-> None, message |-> message,
     table |-> table, calls |-> storage_calls]

\* target_table.update(assignments, col("ID") == record_id)
update_rows(table, assignments, record_id) ==
    [i \in Indices(table) |->
        IF SqlEq(table[i]["ID"], record_id)
        THEN [c \in DOMAIN table[i] |-> Get(assignments, c, table[i][c])]
        ELSE table[i]]

rows_updated(table, record_id) ==
    Cardinality({i \in Indices(table) : SqlEq(table[i]["ID"], record_id)})

update_record(table, entity_type, record_id, approved_cols, proposed_record, fault) ==
    IF no_fields_selected(approved_cols)
    THEN UpdateOutcome(FALSE, "No fields were selected for update.", table, <<>>)
    ELSE
    LET built == build_assignments(entity_type, approved_cols, proposed_record)
        TABLE_NAME == get_table_info(entity_type)
        update_raises ==
            fault = 1 \/ \E i \in Indices(table) : CompareFails(table[i]["ID"], record_id)
        update == Write("UPDATE", TABLE_NAME, built.columns_list, built.assignments, FALSE)
    IN IF no_valid_columns(built.columns_list)
       THEN UpdateOutcome(FALSE, "No valid columns found for update.", table, <<>>)
       ELSE IF update_raises
       THEN UpdateOutcome(FALSE, "Error updating record", table,
                          <<Write("UPDATE", TABLE_NAME, built.columns_list, EmptyDict, TRUE)>>)
       ELSE IF record_was_updated(rows_updated(table, record_id))
       THEN UpdateOutcome(TRUE, "Record updated successfully",
                          update_rows(table, built.assignments, record_id), <<update>>)
       ELSE UpdateOutcome(FALSE, "Record was not found for update.",
                          update_rows(table, built.assignments, record_id), <<update>>)


(***************************************************************************)
(* affiliation_updates.py                                                  *)
(***************************************************************************)
ai_generated_ == <<"a", "i", "_", "g", "e", "n", "e", "r", "a", "t", "e", "d", "_">>
Generated_by_AI ==
    <<"G", "e", "n", "e", "r", "a", "t", "e", "d", " ", "b", "y", " ", "A", "I">>
generated_by_ai == Lower(Generated_by_AI)

HCP_HCO_AFFILIATION_COLUMNS ==
    {"HCP_ACCT_ID", "HCP_NPI", "HCO_ID", "HCO_NAME", "HCO_ADDRESS1", "HCO_CITY",
     "HCO_STATE", "HCO_ZIP"}

OUTLET_HCO_AFFILIATION_COLUMNS ==
    {"HCO_ID", "OUTLET_ID", "OUTLET_NAME", "OUTLET_ADDRESS1", "OUTLET_CITY",
     "OUTLET_STATE", "OUTLET_ZIP"}

\* candidate data as passed by the caller: None, or a dict
NoData == [none |-> TRUE, kv |-> EmptyDict]
Data(kv) == [none |-> FALSE, kv |-> kv]

\* `if hco_data`: None and {} are falsy
DataTruthy(hco_data) == ~hco_data.none /\ DOMAIN hco_data.kv # {}

\* the k-th storage call of the invocation raises when fault = k
Raises(storage_calls, fault) == Len(storage_calls) + 1 = fault

\* clean_val of the insert helpers
clean_val(val) == IF val = None THEN <<>> ELSE Replace(PyStr(val), QUOTE, QUOTEQUOTE)

check_affiliation_exists(affl, hcp_npi, hco_id, storage_calls, fault) ==
    IF ~Truthy(hcp_npi) \/ ~Truthy(hco_id)
    THEN [exists |-> FALSE, calls |-> storage_calls]
    ELSE LET npi_text == PyStr(hcp_npi)
             id_text == PyStr(hco_id)
             raises == \/ Raises(storage_calls, fault)
                       \/ ~QuotesPaired(npi_text) \/ ~QuotesPaired(id_text)
             CNT == Cardinality({i \in Indices(affl) :
                        /\ affl[i]["HCP_NPI"] = MkStr(Replace(npi_text, QUOTEQUOTE, QUOTE))
                        /\ affl[i]["HCO_ID"] = MkStr(Replace(id_text, QUOTEQUOTE, QUOTE))})
         IN [exists |-> IF raises THEN FALSE ELSE CNT > 0,
             calls |-> Append(storage_calls,
                              Call("SELECT", "HCP_HCO_AFFILIATION", EmptyDict, raises))]

\* COALESCE(MAX(TRY_TO_NUMBER(HCO_ID)), 0) ... WHERE TRY_TO_NUMBER(HCO_ID) IS NOT NULL
max_numeric_hco_id(affl) ==
    MaxOf({DigitsVal(affl[i]["HCO_ID"].s) :
              i \in {j \in Indices(affl) :
                        affl[j]["HCO_ID"].t = "str" /\ IsDigits(affl[j]["HCO_ID"].s)}}, 0)

\* COALESCE(MAX(OUTLET_ID), 0) FROM OUTLET_HCO_AFFILIATION
max_outlet_id(affl) ==
    MaxOf({affl[i]["OUTLET_ID"].n :
              i \in {j \in Indices(affl) : affl[j]["OUTLET_ID"].t = "int"}}, 0)

AffiliationOutcome(result, affl, storage_calls) ==
    [result |-> result, table |-> affl, calls |-> storage_calls]

\* `return None if generate_new_id else False` of the except branches
insert_failure(generate_new_id) == IF generate_new_id THEN None ELSE PyFalse

\* session.sql(insert_sql).collect() and what follows it: the statement
\* raises when the storage call fails or a literal is malformed, else the row
\* is stored and `returned` is handed back
run_insert(affl, table_name, columns, literals, returned, failure, storage_calls, fault) ==
    IF Raises(storage_calls, fault) \/ \E c \in DOMAIN literals : ~LiteralOk(literals[c])
    THEN AffiliationOutcome(failure, affl,
             Append(storage_calls, Call("INSERT", table_name, EmptyDict, TRUE)))
    ELSE AffiliationOutcome(returned,
             Append(affl, MkRow(columns, [c \in DOMAIN literals |-> LiteralValue(literals[c])])),
             Append(storage_calls,
                    Call("INSERT", table_name,
                         [c \in DOMAIN literals |-> LiteralValue(literals[c])], FALSE)))

\* hco_data.get(label, hco_data.get(alt, ''))
hco_field(hco_data, label, alt) ==
    Get(hco_data.kv, label, Get(hco_data.kv, alt, MkStr(<<>>)))

\* the VALUES of the INSERT INTO HCP_HCO_AFFILIATION
hcp_affiliation_values(hcp_id, hcp_npi, hco_id, hco_data) ==
    ("HCP_ACCT_ID" :> IF Truthy(hcp_id) THEN Literal("number", clean_val(hcp_id))
                                        ELSE Literal("NULL", <<>>)) @@
    ("HCP_NPI" :> Literal("quoted", clean_val(hcp_npi))) @@
    ("HCO_ID" :> Literal("quoted", clean_val(hco_id))) @@
    ("HCO_NAME" :> Literal("quoted", clean_val(hco_field(hco_data, "HCO NAME", "HCO_Name")))) @@
    ("HCO_ADDRESS1" :> Literal("quoted", clean_val(hco_field(hco_data, "HCO ADDRESS", "HCO_Address1")))) @@
    ("HCO_CITY" :> Literal("quoted", clean_val(hco_field(hco_data, "HCO CITY", "HCO_City")))) @@
    ("HCO_STATE" :> Literal("quoted", clean_val(hco_field(hco_data, "HCO STATE", "HCO_State")))) @@
    ("HCO_ZIP" :> Literal("quoted", clean_val(hco_field(hco_data, "HCO ZIP", "HCO_ZIP"))))

\* str(hco_data.get('HCO ID', hco_data.get('HCO_ID', ''))).startswith('ai_generated_')
keyed_as_ai(hco_data) ==
    StartsWith(PyStr(hco_field(hco_data, "HCO ID", "HCO_ID")), ai_generated_)

\* `return hco_id` or `return True` after the insert
insert_returns(hco_data, generate_new_id, new_id) ==
    IF generate_new_id \/ keyed_as_ai(hco_data) THEN new_id ELSE PyTrue

\* the largest identifier itself, not its successor
generated_hco_id_max(affl) == MkStr(NatDigits(max_numeric_hco_id(affl)))

\* hco_id = str(int(max_id) + 1)
generated_hco_id(affl) ==
    LET MAX_ID == max_numeric_hco_id(affl)
    IN MkStr(NatDigits((IF MAX_ID # 0 THEN MAX_ID ELSE 0) + 1))

\* the insert with the identifier it was given or has generated
insert_hcp_affiliation_with(affl, hcp_id, hcp_npi, hco_data, generate_new_id, hco_id, storage_calls, fault) ==
    run_insert(affl, "HCP_HCO_AFFILIATION", HCP_HCO_AFFILIATION_COLUMNS,
               hcp_affiliation_values(hcp_id, hcp_npi, hco_id, hco_data),
               insert_returns(hco_data, generate_new_id, hco_id),
               insert_failure(generate_new_id), storage_calls, fault)

insert_hcp_affiliation_record(affl, hcp_id, hcp_npi, hco_data, generate_new_id, storage_calls, fault) ==
    IF hco_data.none
    THEN AffiliationOutcome(insert_failure(generate_new_id), affl, storage_calls)
    ELSE IF ~(\/ generate_new_id
              \/ keyed_as_ai(hco_data)
              \/ ~Truthy(hco_field(hco_data, "HCO ID", "HCO_ID")))
    THEN insert_hcp_affiliation_with(affl, hcp_id, hcp_npi, hco_data, generate_new_id,
             hco_field(hco_data, "HCO ID", "HCO_ID"), storage_calls, fault)
    ELSE IF Raises(storage_calls, fault)
    THEN AffiliationOutcome(insert_failure(generate_new_id), affl,
             Append(storage_calls, Call("SELECT", "HCP_HCO_AFFILIATION", EmptyDict, TRUE)))
    ELSE insert_hcp_affiliation_with(affl, hcp_id, hcp_npi, hco_data, generate_new_id,
             generated_hco_id(affl),
             Append(storage_calls, Call("SELECT", "HCP_HCO_AFFILIATION", EmptyDict, FALSE)),
             fault)

\* outlet_data.get(label, outlet_data.get(alt, outlet_data.get(own, '')))
outlet_field(outlet_data, label, alt, own) ==
    Get(outlet_data.kv, label,
        Get(outlet_data.kv, alt, Get(outlet_data.kv, own, MkStr(<<>>))))

\* the VALUES of the INSERT INTO OUTLET_HCO_AFFILIATION
outlet_affiliation_values(hco_id, outlet_id, outlet_data) ==
    ("HCO_ID" :> Literal("quoted", clean_val(hco_id))) @@
    ("OUTLET_ID" :> Literal("number", PyStr(outlet_id))) @@
    ("OUTLET_NAME" :> Literal("quoted", clean_val(outlet_field(outlet_data, "HCO NAME", "HCO_Name", "OUTLET_NAME")))) @@
    ("OUTLET_ADDRESS1" :> Literal("quoted", clean_val(outlet_field(outlet_data, "HCO ADDRESS", "HCO_Address1", "OUTLET_ADDRESS1")))) @@
    ("OUTLET_CITY" :> Literal("quoted", clean_val(outlet_field(outlet_data, "HCO CITY", "HCO_City", "OUTLET_CITY")))) @@
    ("OUTLET_STATE" :> Literal("quoted", clean_val(outlet_field(outlet_data, "HCO STATE", "HCO_State", "OUTLET_STATE")))) @@
    ("OUTLET_ZIP" :> Literal("quoted", clean_val(outlet_field(outlet_data, "HCO ZIP", "HCO_ZIP", "OUTLET_ZIP"))))

\* outlet_id = int(max_id) + 1
generated_outlet_id(affl) ==
    LET MAX_ID == max_outlet_id(affl)
    IN MkInt((IF MAX_ID # 0 THEN MAX_ID ELSE 0) + 1)

insert_hco_affiliation_with(affl, hco_id, outlet_data, generate_new_id, outlet_id, storage_calls, fault) ==
    run_insert(affl, "OUTLET_HCO_AFFILIATION", OUTLET_HCO_AFFILIATION_COLUMNS,
               outlet_affiliation_values(hco_id, outlet_id, outlet_data),
               insert_returns(outlet_data, generate_new_id, outlet_id),
               insert_failure(generate_new_id), storage_calls, fault)

insert_hco_affiliation_record(affl, hco_id, outlet_data, generate_new_id, storage_calls, fault) ==
    IF outlet_data.none
    THEN AffiliationOutcome(insert_failure(generate_new_id), affl, storage_calls)
    ELSE IF ~(\/ generate_new_id
              \/ StartsWith(PyStr(outlet_field(outlet_data, "HCO ID", "HCO_ID", "OUTLET_ID")),
                            ai_generated_)
              \/ ~Truthy(outlet_field(outlet_data, "HCO ID", "HCO_ID", "OUTLET_ID")))
    THEN insert_hco_affiliation_with(affl, hco_id, outlet_data, generate_new_id,
             outlet_field(outlet_data, "HCO ID", "HCO_ID", "OUTLET_ID"), storage_calls, fault)
    ELSE IF Raises(storage_calls, fault)
    THEN AffiliationOutcome(insert_failure(generate_new_id), affl,
             Append(storage_calls, Call("SELECT", "OUTLET_HCO_AFFILIATION", EmptyDict, TRUE)))
    ELSE insert_hco_affiliation_with(affl, hco_id, outlet_data, generate_new_id,
             generated_outlet_id(affl),
             Append(storage_calls, Call("SELECT", "OUTLET_HCO_AFFILIATION", EmptyDict, FALSE)),
             fault)

\* the count of updated rows not looked at
pointer_was_updated_any(rows) == rows >= 0

\* `update_result.rows_updated > 0` of the two pointer updates
pointer_was_updated(rows) == rows > 0

\* update_hcp_primary_affiliation / update_hco_primary_affiliation: they
\* differ in the table and the pointer column only
update_primary_affiliation(main, table_name, entity_id, pointer, storage_calls, fault) ==
    LET assignments == PointerColumn(table_name) :> pointer
        raises == \/ Raises(storage_calls, fault)
                  \/ \E i \in Indices(main) : CompareFails(main[i]["ID"], entity_id)
    IN IF raises
       THEN [ok |-> FALSE, table |-> main,
             calls |-> Append(storage_calls, Call("UPDATE", table_name, EmptyDict, TRUE))]
       ELSE [ok |-> pointer_was_updated(rows_updated(main, entity_id)),
             table |-> update_rows(main, assignments, entity_id),
             calls |-> Append(storage_calls, Call("UPDATE", table_name, assignments, FALSE))]

update_hcp_primary_affiliation(main, hcp_id, hco_id, storage_calls, fault) ==
    update_primary_affiliation(main, "NPI", hcp_id, hco_id, storage_calls, fault)

update_hco_primary_affiliation(main, hco_id, outlet_id, storage_calls, fault) ==
    update_primary_affiliation(main, "HCO", hco_id, outlet_id, storage_calls, fault)


SetPrimaryOutcome(raised, success, final_id, message, main, affl, storage_calls) ==
    [raised |-> raised, success |-> success, id |-> final_id, message |-> message,
     main |-> main, affl |-> affl, calls |-> storage_calls]

\* the is_ai_generated expression, evaluated left to right with short circuit;
\* "raise" when hco_data.get or .lower() is applied to something without it
is_ai_generated(hco_data, hco_id) ==
    IF StartsWith(PyStr(hco_id), ai_generated_) THEN "yes"
    ELSE IF hco_data.none THEN "raise"
    ELSE IF Get(hco_data.kv, "SOURCE", None) = MkStr(Generated_by_AI) THEN "yes"
    ELSE IF Get(hco_data.kv, "SOURCE", MkStr(<<>>)).t # "str" THEN "raise"
    ELSE IF Lower(Get(hco_data.kv, "SOURCE", MkStr(<<>>)).s) = generated_by_ai THEN "yes"
    ELSE "no"

\* where set_primary_affiliation stands after its affiliation step
AfterAffiliation(failed, final_hco_id, affl, storage_calls) ==
    [failed |-> failed, final |-> final_hco_id, affl |-> affl, calls |-> storage_calls]

\* `if result is not None: final_hco_id = result` / `else: return (False, ...)`
after_generating_insert(ins) ==
    AfterAffiliation(ins.result = None, ins.result, ins.table, ins.calls)

\* the insert of a database-sourced link: its result is not looked at
after_plain_insert(ins, hco_id) == AfterAffiliation(FALSE, hco_id, ins.table, ins.calls)

\* `if not check_affiliation_exists(...): insert_hcp_affiliation_record(...)`
insert_if_missing(chk, affl, selected_id, hcp_npi, hco_data, hco_id, fault) ==
    IF chk.exists
    THEN AfterAffiliation(FALSE, hco_id, affl, chk.calls)
    ELSE after_plain_insert(
             insert_hcp_affiliation_record(affl, selected_id, hcp_npi, hco_data, FALSE,
                                           chk.calls, fault),
             hco_id)

\* step 1: the affiliation row
affiliation_step(affl, entity_type, selected_id, hcp_npi, hco_data, hco_id, is_new_record, fault) ==
    IF is_ai_generated(hco_data, hco_id) = "yes" /\ DataTruthy(hco_data)
    THEN IF entity_type = "HCP"
         THEN after_generating_insert(
                  insert_hcp_affiliation_record(affl, selected_id, hcp_npi, hco_data, TRUE,
                                                <<>>, fault))
         ELSE after_generating_insert(
                  insert_hco_affiliation_record(affl, selected_id, hco_data, TRUE, <<>>, fault))
    ELSE IF entity_type = "HCP" /\ is_new_record /\ DataTruthy(hco_data)
    THEN insert_if_missing(check_affiliation_exists(affl, hcp_npi, hco_id, <<>>, fault),
                           affl, selected_id, hcp_npi, hco_data, hco_id, fault)
    ELSE AfterAffiliation(FALSE, hco_id, affl, <<>>)

\* step 3: the pointer, and the tuple returned
pointer_step(step1, upd) ==
    IF upd.ok
    THEN SetPrimaryOutcome(FALSE, TRUE, step1.final, "Primary affiliation updated",
                           upd.table, step1.affl, upd.calls)
    ELSE SetPrimaryOutcome(FALSE, FALSE, None, "Could not update the primary affiliation.",
                           upd.table, step1.affl, upd.calls)

after_affiliation_step(main, entity_type, selected_id, step1, fault) ==
    IF step1.failed
    THEN SetPrimaryOutcome(FALSE, FALSE, None,
             IF entity_type = "HCP" THEN "Failed to create affiliation record."
                                    ELSE "Failed to create outlet affiliation record.",
             main, step1.affl, step1.calls)
    ELSE IF entity_type = "HCP"
    THEN pointer_step(step1,
             update_hcp_primary_affiliation(main, selected_id, step1.final, step1.calls, fault))
    ELSE pointer_step(step1,
             update_hco_primary_affiliation(main, selected_id, step1.final, step1.calls, fault))

set_primary_affiliation(main, affl, entity_type, selected_record, hco_data, hco_id, is_new_record, fault) ==
    IF is_ai_generated(hco_data, hco_id) = "raise"
    THEN SetPrimaryOutcome(TRUE, FALSE, None, "AttributeError", main, affl, <<>>)
    ELSE after_affiliation_step(main, entity_type,
             Get(selected_record, "ID", MkStr(<<>>)),
             affiliation_step(affl, entity_type,
                              Get(selected_record, "ID", MkStr(<<>>)),
                              Get(selected_record, "NPI", MkStr(<<>>)),
                              hco_data, hco_id, is_new_record, fault),
             fault)


(***************************************************************************)
(* The inputs the operations are called with.                              *)
(***************************************************************************)
EntityTypes == {"HCP", "HCO"}

Ann == MkStr(<<"A", "n", "n">>)
OHara == MkStr(<<"O", "'", "H", "a", "r", "a">>)
Elm == MkStr(<<"1", " ", "E", "l", "m">>)
Oak == MkStr(<<"9", " ", "O", "a", "k">>)
Blank == MkStr(<<" ">>)
NotAvailable == MkStr(N_A)
Canada == MkStr(<<"C", "a", "n", "a", "d", "a">>)
Usa == MkStr(<<"U", "s", "a">>)
DOr == MkStr(<<"D", "'", "O", "r">>)
Npi77 == MkStr(<<"7", "7">>)
Npi88 == MkStr(<<"8", "8">>)

\* approved_cols: the labels the steward ticked; "Primary Affiliation" is a
\* label neither mapping knows
ApprovedLists ==
    { <<>>,
      <<"Primary Affiliation">>,
      <<"Address Line 1", "Address Line1">>,
      <<"Name", "NPI", "Country">> }

\* proposed_record: label -> proposed value
ProposedRecords ==
    { ("Name" :> Ann) @@ ("Address Line1" :> Elm) @@ ("Address Line 1" :> Oak) @@
          ("NPI" :> Npi88) @@ ("Country" :> Usa),
      ("Name" :> OHara) @@ ("Address Line1" :> NotAvailable) @@ ("NPI" :> Blank) @@
          ("Country" :> Canada),
      ("Name" :> None) @@ ("Address Line 1" :> Elm) @@ ("Country" :> DOr),
      ("Address Line1" :> Oak) @@ ("Country" :> MkStr(<<"'", "s">>)) }

Sha5 == MkStr(SHA_ \o ZFill(<<"5">>, ZFILL_WIDTH))
Sha9 == MkStr(SHA_ \o ZFill(<<"9">>, ZFILL_WIDTH))
Mercy == MkStr(<<"M", "e", "r", "c", "y">>)
Kline == MkStr(<<"K", "l", "i", "n", "e">>)
Id7 == MkStr(<<"7">>)

NpiRow(id, name, npi, pointer) ==
    MkRow(NPI_COLUMNS, ("ID" :> id) @@ ("NAME" :> name) @@ ("NPI" :> npi) @@
                       ("PRIMARY_AFFL_HCO_ACCOUNT_ID" :> pointer))

HcoRow(id, name, pointer) ==
    MkRow(HCO_COLUMNS, ("ID" :> id) @@ ("NAME" :> name) @@ ("COUNTRY" :> MkStr(US)) @@
                       ("PRIMARY_AFFL_ACCOUNT_ID" :> pointer))

HcpAffiliationRow(hcp_id, npi, hco_id, name) ==
    [c \in HCP_HCO_AFFILIATION_COLUMNS |->
        CASE c = "HCP_ACCT_ID" -> hcp_id
          [] c = "HCP_NPI"     -> npi
          [] c = "HCO_ID"      -> hco_id
          [] c = "HCO_NAME"    -> name
          [] OTHER             -> MkStr(<<>>)]

OutletRow(hco_id, outlet_id, name) ==
    [c \in OUTLET_HCO_AFFILIATION_COLUMNS |->
        CASE c = "HCO_ID"      -> hco_id
          [] c = "OUTLET_ID"   -> outlet_id
          [] c = "OUTLET_NAME" -> name
          [] OTHER             -> MkStr(<<>>)]

Warehouse(npi, hco, hcp_affl, outlet_affl) ==
    [NPI |-> npi, HCO |-> hco, HCP_HCO_AFFILIATION |-> hcp_affl,
     OUTLET_HCO_AFFILIATION |-> outlet_affl]

\* the warehouse at the start of a session: empty, holding one record of each
\* kind without links, and holding one record of each kind with its link
EmptyWarehouse == Warehouse(<<>>, <<>>, <<>>, <<>>)

UnlinkedWarehouse ==
    Warehouse(<<NpiRow(MkInt(1042), Ann, None, None)>>,
              <<HcoRow(Sha5, Mercy, None)>>, <<>>, <<>>)

LinkedWarehouse ==
    Warehouse(<<NpiRow(MkInt(1042), Ann, Npi77, Id7)>>,
              <<HcoRow(Sha5, Mercy, MkInt(3))>>,
              <<HcpAffiliationRow(MkInt(1042), Npi77, Id7, Mercy)>>,
              <<OutletRow(Sha5, MkInt(3), Mercy)>>)

\* record_id of update_record: the ID of a stored record, or one that matches
\* no row
RecordIds(etype, table) ==
    {table[i]["ID"] : i \in Indices(table)} \cup
    (IF etype = "HCP" THEN {MkInt(7)} ELSE {Sha9})

\* selected_record of set_primary_affiliation: a row of the entity table as
\* the search returned it, or a record whose ID matches no row
SelectedRecords(etype, table) ==
    {table[i] : i \in Indices(table)} \cup
    (IF etype = "HCP" THEN {("ID" :> MkInt(7)) @@ ("NPI" :> Npi88)}
                      ELSE {"ID" :> Sha9})

ai_generated_0 == MkStr(ai_generated_ \o <<"0">>)
ai_generated_1 == MkStr(ai_generated_ \o <<"1">>)

\* the chosen affiliation candidate: its key hco_id and its data hco_data
Candidate(hco_id, hco_data) == [hco_id |-> hco_id, hco_data |-> hco_data]

DbCandidate ==
    Candidate(Id7, Data(("HCO ID" :> Id7) @@ ("HCO NAME" :> Mercy) @@
                        ("SOURCE" :> MkStr(<<"D", "B">>))))

AiCandidate ==
    Candidate(ai_generated_0,
              Data(("HCO ID" :> ai_generated_0) @@ ("HCO NAME" :> Kline) @@
                   ("SOURCE" :> MkStr(Generated_by_AI))))

Candidates ==
    { DbCandidate,
      AiCandidate,
      Candidate(ai_generated_1, Data(EmptyDict)),
      Candidate(Id7, NoData),
      Candidate(Id7, Data(("HCO ID" :> Id7) @@ ("SOURCE" :> None))) }

(***************************************************************************)
(* State.                                                                  *)
(***************************************************************************)
VARIABLES
    NPI,                      \* table NPI: the Provider records
    HCO,                      \* table HCO: the Organization records
    HCP_HCO_AFFILIATION,      \* table of Provider -> Organization links
    OUTLET_HCO_AFFILIATION,   \* table of Organization -> outlet links
    entity_type,              \* the session's assistant type, "HCP" or "HCO"
    proposed_record,          \* the session's proposed record (research result)
    is_new_record,            \* the session's flow: new record or existing one
    op,                       \* the operation called last
    args,                     \* its arguments
    result,                   \* what it returned (or that it raised)
    calls,                    \* the storage calls it issued, in order
    session_state             \* st.session_state of the user interface

vars == <<NPI, HCO, HCP_HCO_AFFILIATION, OUTLET_HCO_AFFILIATION,
          entity_type, proposed_record, is_new_record, op, args, result, calls,
          session_state>>

session == <<entity_type, proposed_record, is_new_record, session_state>>

MainTable == IF entity_type = "HCP" THEN NPI ELSE HCO

AffiliationTable ==
    IF entity_type = "HCP" THEN HCP_HCO_AFFILIATION ELSE OUTLET_HCO_AFFILIATION

InitWarehouse(w) ==
    /\ NPI = w.NPI
    /\ HCO = w.HCO
    /\ HCP_HCO_AFFILIATION = w.HCP_HCO_AFFILIATION
    /\ OUTLET_HCO_AFFILIATION = w.OUTLET_HCO_AFFILIATION

InitCall ==
    /\ op = "none"
    /\ args = EmptyDict
    /\ result = EmptyDict
    /\ calls = <<>>
    /\ session_state = EmptyDict

Init ==
    /\ \E w \in {EmptyWarehouse, UnlinkedWarehouse, LinkedWarehouse} : InitWarehouse(w)
    /\ entity_type \in EntityTypes
    /\ proposed_record \in ProposedRecords
    /\ is_new_record \in BOOLEAN
    /\ InitCall

InsertRecord ==
    \E approved_cols \in ApprovedLists, fault \in 0..2 :
        LET out == insert_record(MainTable, entity_type, approved_cols,
                                 proposed_record, fault)
        IN /\ Len(out.table) <= MaxRows
           /\ NPI' = IF entity_type = "HCP" THEN out.table ELSE NPI
           /\ HCO' = IF entity_type = "HCP" THEN HCO ELSE out.table
           /\ op' = "insert_record"
           /\ args' = [approved_cols |-> approved_cols]
           /\ result' = [raised |-> FALSE, success |-> out.success, id |-> out.id,
                         message |-> out.message]
           /\ calls' = out.calls
           /\ UNCHANGED <<HCP_HCO_AFFILIATION, OUTLET_HCO_AFFILIATION, session>>

UpdateRecord ==
    \E approved_cols \in ApprovedLists, fault \in 0..1 :
      \E record_id \in RecordIds(entity_type, MainTable) :
        LET out == update_record(MainTable, entity_type, record_id,
                                 approved_cols, proposed_record, fault)
        IN /\ NPI' = IF entity_type = "HCP" THEN out.table ELSE NPI
           /\ HCO' = IF entity_type = "HCP" THEN HCO ELSE out.table
           /\ op' = "update_record"
           /\ args' = [approved_cols |-> approved_cols, record_id |-> record_id]
           /\ result' = [raised |-> FALSE, success |-> out.success, id |-> out.id,
                         message |-> out.message]
           /\ calls' = out.calls
           /\ UNCHANGED <<HCP_HCO_AFFILIATION, OUTLET_HCO_AFFILIATION, session>>

SetPrimaryAffiliation ==
    \E candidate \in Candidates, fault \in 0..3 :
      \E selected_record \in SelectedRecords(entity_type, MainTable) :
        LET out == set_primary_affiliation(MainTable, AffiliationTable, entity_type,
                       selected_record, candidate.hco_data, candidate.hco_id,
                       is_new_record, fault)
        IN /\ Len(out.affl) <= MaxRows
           /\ NPI' = IF entity_type = "HCP" THEN out.main ELSE NPI
           /\ HCO' = IF entity_type = "HCP" THEN HCO ELSE out.main
           /\ HCP_HCO_AFFILIATION' =
                  IF entity_type = "HCP" THEN out.affl ELSE HCP_HCO_AFFILIATION
           /\ OUTLET_HCO_AFFILIATION' =
                  IF entity_type = "HCP" THEN OUTLET_HCO_AFFILIATION ELSE out.affl
           /\ op' = "set_primary_affiliation"
           /\ args' = [selected_record |-> selected_record, candidate |-> candidate]
           /\ result' = [raised |-> out.raised, success |-> out.success, id |-> out.id,
                         message |-> out.message]
           /\ calls' = out.calls
           /\ UNCHANGED session

Next == InsertRecord \/ UpdateRecord \/ SetPrimaryAffiliation

Spec == Init /\ [][Next]_vars

(***************************************************************************)
(* The two halves of the commit planner, each checked on its own: the      *)
(* record operations never touch the affiliation tables, and               *)
(* set_primary_affiliation touches the entity table in its pointer column  *)
(* only.  A session runs with one assistant type: the Provider operations  *)
(* touch NPI and HCP_HCO_AFFILIATION only, the Organization operations HCO *)
(* and OUTLET_HCO_AFFILIATION only.                                        *)
(***************************************************************************)
InitRecords ==
    /\ \E w \in {EmptyWarehouse, LinkedWarehouse} : InitWarehouse(w)
    /\ entity_type \in EntityTypes
    /\ proposed_record \in ProposedRecords
    /\ is_new_record = FALSE
    /\ InitCall

NextRecords == InsertRecord \/ UpdateRecord

SpecRecords == InitRecords /\ [][NextRecords]_vars

InitAffiliations ==
    /\ \E w \in {UnlinkedWarehouse, LinkedWarehouse} : InitWarehouse(w)
    /\ entity_type \in EntityTypes
    /\ proposed_record = EmptyDict
    /\ is_new_record \in BOOLEAN
    /\ InitCall

NextAffiliations == SetPrimaryAffiliation

SpecAffiliations == InitAffiliations /\ [][NextAffiliations]_vars


(***************************************************************************)
(* Claims.                                                                 *)
(***************************************************************************)
RecordOps == {"insert_record", "update_record"}

\* no approved label is a key of the entity kind's mapping (the empty list
\* included)
NoLabelMaps(approved_cols) ==
    \A i \in 1..Len(approved_cols) :
        approved_cols[i] \notin DOMAIN get_field_to_db_mapping(entity_type)

\* C1: insert_record and update_record called with an empty approved list, or
\* with one none of whose labels maps to a column, return a failure
\* ((False, None, message) / (False, message)), issue no storage call and
\* leave every table as it was.
C1_NothingApprovedNoStorage ==
    [][(op' \in RecordOps /\ NoLabelMaps(args'.approved_cols))
         => /\ ~result'.raised
            /\ ~result'.success
            /\ result'.id = None
            /\ result'.message # ""
            /\ calls' = <<>>
            /\ UNCHANGED <<NPI, HCO, HCP_HCO_AFFILIATION, OUTLET_HCO_AFFILIATION>>]_vars

C1_Witness ==
    /\ op = "update_record"
    /\ args.approved_cols = <<"Primary Affiliation">>
    /\ \E i \in Indices(MainTable) : MainTable[i]["ID"] = args.record_id
    /\ ~result.success
    /\ calls = <<>>


\* the INSERT or UPDATE statement the last operation got through, if any
HasWritten ==
    /\ calls # <<>>
    /\ calls[Len(calls)].stmt \in {"INSERT", "UPDATE"}
    /\ ~calls[Len(calls)].raised

LastWrite == calls[Len(calls)]

\* the columns the mapping assigns to the approved labels
ApprovedColumns(approved_cols) ==
    LET mapping == get_field_to_db_mapping(entity_type)
    IN {mapping[approved_cols[i]] :
           i \in {j \in 1..Len(approved_cols) : approved_cols[j] \in DOMAIN mapping}}

\* the first approved label that maps to column c
FirstLabel(approved_cols, c) ==
    LET mapping == get_field_to_db_mapping(entity_type)
        maps(i) == approved_cols[i] \in DOMAIN mapping /\ mapping[approved_cols[i]] = c
    IN approved_cols[CHOOSE i \in 1..Len(approved_cols) :
                         maps(i) /\ \A j \in 1..(i - 1) : ~maps(j)]

ProposedFor(approved_cols, c) == Get(proposed_record, FirstLabel(approved_cols, c), None)

WrittenColumns == DOMAIN LastWrite.written \ (IF op = "insert_record" THEN {"ID"} ELSE {})

\* C2 as claimed: the columns written (apart from the generated ID) are exactly
\* the columns of the approved labels, each once, and each holds the proposed
\* value of the first approved label that maps to it.
C2_WritesProposedValues ==
    (op \in RecordOps /\ HasWritten)
        => /\ WrittenColumns = ApprovedColumns(args.approved_cols)
           /\ NoDuplicates(LastWrite.columns)
           /\ \A c \in WrittenColumns :
                  LastWrite.written[c] = ProposedFor(args.approved_cols, c)

\* what an INSERT stores for a proposed value: NULL for None, a blank string
\* and "N/A"; for COUNTRY the code US for the names of the United States and
\* else the first two characters of the quote-escaped text; the text otherwise
InsertedForm(c, v) ==
    LET text == PyStr(v)
        two == Prefix(Replace(text, QUOTE, QUOTEQUOTE), 2)
    IN IF v = None \/ Strip(text) = <<>> \/ text = N_A THEN None
       ELSE IF c # "COUNTRY" THEN MkStr(text)
       ELSE IF Upper(text) \in {USA, UNITED_STATES, UNITED_STATES_OF_AMERICA}
            THEN MkStr(US)
            ELSE MkStr(Replace(two, QUOTEQUOTE, QUOTE))

\* C2 as amended: the same columns, each once; an UPDATE writes the proposed
\* value of the first approved label as it is, an INSERT writes its stored
\* form (InsertedForm).
C2_WritesApprovedColumns ==
    (op \in RecordOps /\ HasWritten)
        => /\ WrittenColumns = ApprovedColumns(args.approved_cols)
           /\ NoDuplicates(LastWrite.columns)
           /\ \A c \in WrittenColumns :
                  LastWrite.written[c] =
                      IF op = "insert_record"
                      THEN InsertedForm(c, ProposedFor(args.approved_cols, c))
                      ELSE ProposedFor(args.approved_cols, c)

\* two labels of one column approved, and an INSERT that stored a converted
\* country
C2_Witness ==
    /\ op = "insert_record"
    /\ entity_type = "HCO"
    /\ HasWritten
    /\ args.approved_cols = <<"Name", "NPI", "Country">>
    /\ proposed_record["Country"] = Canada
    /\ LastWrite.written["COUNTRY"] = MkStr(<<"C", "a">>)
    /\ LastWrite.written["NAME"] = OHara


\* the number an Organization identifier ends with (after its last "_")
RECURSIVE NumericSuffix(_)
NumericSuffix(chars) ==
    IF \E i \in 1..Len(chars) : chars[i] = "_"
    THEN NumericSuffix(Tail(chars))
    ELSE DigitsVal(chars)

\* C3 as claimed: of two successful Organization inserts in a row, the second
\* returns an identifier with a strictly greater numeric suffix (so the two
\* identifiers differ).
C3_HcoSuffixIncreases ==
    [][(/\ entity_type = "HCO"
        /\ op = "insert_record" /\ result.success
        /\ op' = "insert_record" /\ result'.success)
         => NumericSuffix(result'.id.s) > NumericSuffix(result.id.s)]_vars

\* C4: a successful Provider insert returns the integer (maximum ID of the
\* table before the insert) + 1, and 1 for an empty table; no row of the table
\* before the insert has that ID.
C4_HcpIdIsMaxPlusOne ==
    [][(entity_type = "HCP" /\ op' = "insert_record" /\ result'.success)
         => LET ids == {NPI[i]["ID"].n : i \in Indices(NPI)}
            IN /\ result'.id.t = "int"
               /\ IF ids = {} THEN result'.id.n = 1
                  ELSE /\ result'.id.n - 1 \in ids
                       /\ \A k \in ids : k < result'.id.n
               /\ \A i \in Indices(NPI) : NPI[i]["ID"] # result'.id
               /\ NPI'[Len(NPI')]["ID"] = result'.id]_vars

\* maximum 1042 gives 1043
C4_Witness ==
    /\ entity_type = "HCP"
    /\ op = "insert_record"
    /\ result.success
    /\ result.id = MkInt(1043)
    /\ Len(NPI) = 2
    /\ NPI[1]["ID"] = MkInt(1042)


(***************************************************************************)
(* Claims about set_primary_affiliation.                                   *)
(***************************************************************************)
\* the entity the last set_primary_affiliation was called for
SelectedId == Get(args.selected_record, "ID", MkStr(<<>>))

\* the link rows stored for the entity with the given name of the affiliate
LinkRowsNamed(entity_id, name) ==
    IF entity_type = "HCP"
    THEN {i \in Indices(HCP_HCO_AFFILIATION) :
             /\ SqlEq(HCP_HCO_AFFILIATION[i]["HCP_ACCT_ID"], entity_id)
             /\ HCP_HCO_AFFILIATION[i]["HCO_NAME"] = name}
    ELSE {i \in Indices(OUTLET_HCO_AFFILIATION) :
             /\ SqlEq(OUTLET_HCO_AFFILIATION[i]["HCO_ID"], entity_id)
             /\ OUTLET_HCO_AFFILIATION[i]["OUTLET_NAME"] = name}

CommittedAiCandidate ==
    /\ op = "set_primary_affiliation"
    /\ args.candidate = AiCandidate
    /\ result.success

\* C5 as claimed: when the same "Generated by AI" candidate is committed a
\* second time for the same entity, storage holds exactly one affiliation row
\* for that entity and candidate.
C5_AiCommitTwiceOneRow ==
    [][(CommittedAiCandidate /\ CommittedAiCandidate' /\ SelectedId' = SelectedId)
         => Cardinality(LinkRowsNamed(SelectedId, Kline)') = 1]_vars

\* the Provider -> Organization link rows of the pair (entity, affiliation)
LinkRowsOfPair(entity_id, hco_id) ==
    {i \in Indices(HCP_HCO_AFFILIATION) :
        /\ SqlEq(HCP_HCO_AFFILIATION[i]["HCP_ACCT_ID"], entity_id)
        /\ SqlEq(HCP_HCO_AFFILIATION[i]["HCO_ID"], hco_id)}

\* C6 as claimed: after a commit of a database-sourced candidate, storage holds
\* at most one link row for the pair (entity identifier, affiliation
\* identifier), whatever the existence check did and whatever the NPI is.
C6_DbCommitAtMostOneLink ==
    (/\ op = "set_primary_affiliation"
     /\ entity_type = "HCP"
     /\ args.candidate = DbCandidate)
        => Cardinality(LinkRowsOfPair(SelectedId, args.candidate.hco_id)) <= 1

\* the last set_primary_affiliation got an AI-sourced candidate
AiSourced ==
    /\ op = "set_primary_affiliation"
    /\ is_ai_generated(args.candidate.hco_data, args.candidate.hco_id) = "yes"

\* the column of the link row that holds the generated identifier
GeneratedIdColumn == IF entity_type = "HCP" THEN "HCO_ID" ELSE "OUTLET_ID"

InsertFailed ==
    \E j \in 1..Len(calls) :
        calls[j].stmt \in {"SELECT", "INSERT"} /\ calls[j].raised

\* C7 as claimed: with an AI-sourced candidate every pointer update comes
\* after an insert of the affiliation row that went through, the pointer is
\* written with the identifier that insert generated and never with the
\* placeholder key, and after a failed insert there is no pointer update and
\* the result is (False, None, message).
C7_InsertBeforePointer ==
    AiSourced
        => /\ \A i \in 1..Len(calls) :
                  calls[i].stmt = "UPDATE"
                      => \E j \in 1..(i - 1) :
                            /\ calls[j].stmt = "INSERT"
                            /\ ~calls[j].raised
                            /\ ~calls[i].raised
                                 => /\ calls[i].written[PointerColumn(calls[i].table)]
                                           = calls[j].written[GeneratedIdColumn]
                                    /\ ~StartsWith(
                                           PyStr(calls[i].written[PointerColumn(calls[i].table)]),
                                           ai_generated_)
           /\ InsertFailed
                  => /\ \A i \in 1..Len(calls) : calls[i].stmt # "UPDATE"
                     /\ ~result.raised /\ ~result.success /\ result.id = None
                     /\ result.message # ""

\* the UPDATE of the last operation reached storage and did not raise
UpdateRan ==
    /\ calls # <<>>
    /\ calls[Len(calls)].stmt = "UPDATE"
    /\ ~calls[Len(calls)].raised

\* C8: when set_primary_affiliation returns (True, id, message), the entity has
\* a row, the pointer column of its row holds id in place of what it held
\* before, and no other row's pointer has changed; when the pointer update
\* runs and matches no row of the entity table, the result is
\* (False, None, message) and the entity table is as it was.
C8_PointerEqualsReturnedId ==
    [][(op' = "set_primary_affiliation")
         => LET id == SelectedId'
                P == PointerColumn(get_table_info(entity_type))
                matches(i) == SqlEq(MainTable[i]["ID"], id)
            IN /\ Len(MainTable') = Len(MainTable)
               /\ result'.success
                    => /\ \E i \in Indices(MainTable) : matches(i)
                       /\ \A i \in Indices(MainTable) :
                              IF matches(i)
                              THEN MainTable'[i][P] = result'.id
                              ELSE MainTable'[i] = MainTable[i]
               /\ (UpdateRan' /\ ~\E i \in Indices(MainTable) : matches(i))
                    => /\ ~result'.raised /\ ~result'.success /\ result'.id = None
                       /\ result'.message = "Could not update the primary affiliation."
                       /\ MainTable' = MainTable]_vars

\* the pointer 7 of Provider 1042 replaced by the generated identifier 8
C8_Witness ==
    /\ op = "set_primary_affiliation"
    /\ entity_type = "HCP"
    /\ result.success
    /\ result.id = MkStr(<<"8">>)
    /\ SelectedId = MkInt(1042)
    /\ NPI[1]["ID"] = MkInt(1042)
    /\ NPI[1]["PRIMARY_AFFL_HCO_ACCOUNT_ID"] = MkStr(<<"8">>)


(***************************************************************************)
(* Claims about the frame of the record operations.                        *)
(***************************************************************************)
PointerColumns == {PointerColumn("NPI"), PointerColumn("HCO")}

\* the pointer columns of the rows of a table, row by row
Pointers(table, table_name) ==
    [i \in Indices(table) |-> table[i][PointerColumn(table_name)]]

\* C9: insert_record and update_record name no pointer column in the statement
\* they issue, leave the pointer of every stored row as it was, and a row that
\* insert_record creates has no pointer.
C9_RecordOpsLeavePointer ==
    [][(op' \in RecordOps)
         => /\ \A k \in 1..Len(calls') :
                   /\ \A n \in 1..Len(calls'[k].columns) :
                          calls'[k].columns[n] \notin PointerColumns
                   /\ DOMAIN calls'[k].written \cap PointerColumns = {}
            /\ \A i \in Indices(NPI) :
                   Pointers(NPI', "NPI")[i] = Pointers(NPI, "NPI")[i]
            /\ \A i \in Indices(HCO) :
                   Pointers(HCO', "HCO")[i] = Pointers(HCO, "HCO")[i]
            /\ \A i \in (Indices(NPI') \ Indices(NPI)) : Pointers(NPI', "NPI")[i] = None
            /\ \A i \in (Indices(HCO') \ Indices(HCO)) : Pointers(HCO', "HCO")[i] = None]_vars

\* an update of the linked Provider that went through: its pointer is still 7
C9_Witness ==
    /\ op = "update_record"
    /\ entity_type = "HCP"
    /\ result.success
    /\ args.record_id = MkInt(1042)
    /\ NPI[1]["NAME"] = OHara
    /\ NPI[1]["PRIMARY_AFFL_HCO_ACCOUNT_ID"] = Id7

\* C10: when the UPDATE of update_record runs and its identifier matches no
\* row, update_record does not raise, returns (False, "Record was not found
\* for update.") and leaves every row as it was.
C10_NotFoundNoChange ==
    [][(/\ op' = "update_record"
        /\ UpdateRan'
        /\ ~\E i \in Indices(MainTable) : SqlEq(MainTable[i]["ID"], args'.record_id))
         => /\ ~result'.raised
            /\ ~result'.success
            /\ result'.message = "Record was not found for update."
            /\ UNCHANGED <<NPI, HCO, HCP_HCO_AFFILIATION, OUTLET_HCO_AFFILIATION>>]_vars

\* an update for an identifier no row holds, on a table that holds rows
C10_Witness ==
    /\ op = "update_record"
    /\ MainTable # <<>>
    /\ \A i \in Indices(MainTable) : ~SqlEq(MainTable[i]["ID"], args.record_id)
    /\ calls # <<>>
    /\ ~calls[1].raised
    /\ result.message = "Record was not found for update."


(***************************************************************************)
(* Claims about errors of the record operations.                           *)
(***************************************************************************)
\* a storage call of the last operation raised
StorageRaised == \E k \in 1..Len(calls) : calls[k].raised

\* C11: when a storage call of insert_record or update_record raises (the
\* identifier query, the INSERT or the UPDATE), the operation does not raise
\* itself: it returns a result with success = False and a non-empty message,
\* and no table has changed.
C11_StorageErrorIsAResult ==
    [][(op' \in RecordOps /\ StorageRaised')
         => /\ ~result'.raised
            /\ ~result'.success
            /\ result'.message # ""
            /\ UNCHANGED <<NPI, HCO, HCP_HCO_AFFILIATION, OUTLET_HCO_AFFILIATION>>]_vars

\* an insert whose identifier query went through and whose INSERT raised
C11_Witness ==
    /\ op = "insert_record"
    /\ Len(calls) = 2
    /\ ~calls[1].raised
    /\ calls[2].stmt = "INSERT"
    /\ calls[2].raised
    /\ ~result.success
    /\ result.message = "Error inserting record"


(***************************************************************************)
(* cortex_llm.py: the two ranker functions.                                *)
(*                                                                         *)
(* A JSON document is modelled by its parsed value; the text the service   *)
(* sends is a sequence of pieces of a document, and json.loads accepts the *)
(* text when the pieces make up one whole document.                        *)
(***************************************************************************)
Default_ordering ==
    MkStr(<<"D", "e", "f", "a", "u", "l", "t", " ", "o", "r", "d", "e", "r", "i", "n", "g">> \o
          <<" ", "(", "L", "L", "M", " ", "u", "n", "a", "v", "a", "i", "l", "a", "b", "l", "e", ")">>)

JsonNull == [kind |-> "null", fields |-> EmptyDict, items |-> <<>>, value |-> None]
JsonObject(fields) == [kind |-> "object", fields |-> fields, items |-> <<>>, value |-> None]
JsonList(items) == [kind |-> "list", fields |-> EmptyDict, items |-> items, value |-> None]
JsonScalar(v) == [kind |-> "scalar", fields |-> EmptyDict, items |-> <<>>, value |-> v]

\* a piece of the text of document doc: all of it, or its head or tail
Piece(doc, part) == [doc |-> doc, part |-> part]

\* a step of the try block: it raised, or it gave a value
Raised == [raised |-> TRUE, value |-> <<>>]
Gave(value) == [raised |-> FALSE, value |-> value]

\* json.loads(text): the document, or json.JSONDecodeError
json_loads(text) ==
    IF Len(text) = 1 /\ text[1].part = "all" THEN Gave(text[1].doc)
    ELSE IF /\ Len(text) = 2
            /\ text[1].part = "head" /\ text[2].part = "tail"
            /\ text[1].doc = text[2].doc
         THEN Gave(text[1].doc)
         ELSE Raised

\* priority_map[key] = value on an insertion-ordered dict (a sequence of
\* entries): a key already present keeps its place and gets the new value
DictSet(d, key, value) ==
    IF \E i \in 1..Len(d) : d[i].key = key
    THEN [i \in 1..Len(d) |-> IF d[i].key = key THEN [key |-> key, value |-> value] ELSE d[i]]
    ELSE Append(d, [key |-> key, value |-> value])

RankerOutcome(priority_map, requests, slept) ==
    [raised |-> FALSE, map |-> priority_map, requests |-> requests, slept |-> slept]

\* `if not affiliations`
no_affiliations_unchecked(affiliations) == FALSE

no_affiliations(affiliations) == affiliations = <<>>

RECURSIVE DefaultPriorities(_, _, _)
\* {str(key): {"priority": idx + 1, "reason": ...} for idx, (key, _) in enumerate(affiliations)}
DefaultPriorities(affiliations, idx, acc) ==
    IF idx >= Len(affiliations) THEN acc
    ELSE DefaultPriorities(affiliations, idx + 1,
             DictSet(acc, PyStr(affiliations[idx + 1].key),
                     [priority |-> MkInt(idx + 1), reason |-> Default_ordering]))

\* enumerate started one candidate late
default_priorities_skipping_first(affiliations) ==
    DefaultPriorities(affiliations, 1, <<>>)

default_priorities(affiliations) == DefaultPriorities(affiliations, 0, <<>>)

\* what `for ranking in result.get("rankings", [])` iterates over; it raises
\* when the document has no .get or the value is not iterable
rankings_of(loaded) ==
    IF loaded.kind # "object" THEN Raised
    ELSE IF "rankings" \notin DOMAIN loaded.fields THEN Gave(<<>>)
    ELSE LET rankings == loaded.fields["rankings"]
         IN CASE rankings.kind = "list"   -> Gave(rankings.items)
              [] rankings.kind = "object" ->
                     IF DOMAIN rankings.fields = {} THEN Gave(<<>>) ELSE Raised
              [] OTHER                    -> Raised

\* ranking["key"], ranking["priority"], ranking["reason"] all succeed
ranking_is_complete(ranking) ==
    /\ ranking.kind = "object"
    /\ {"key", "priority", "reason"} \subseteq DOMAIN ranking.fields

RECURSIVE PriorityMap(_, _)
\* the loop that fills priority_map; it raises on KeyError and TypeError
PriorityMap(rankings, acc) ==
    IF rankings = <<>> THEN Gave(acc)
    ELSE IF ~ranking_is_complete(Head(rankings)) THEN Raised
    ELSE PriorityMap(Tail(rankings),
             DictSet(acc, PyStr(Head(rankings).fields["key"].value),
                     [priority |-> Head(rankings).fields["priority"].value,
                      reason |-> Head(rankings).fields["reason"].value]))

\* the loop over the rankings of a loaded document
priority_map_of(iterated) ==
    IF iterated.raised THEN Raised ELSE PriorityMap(iterated.value, <<>>)

\* json.loads, the loop and `return priority_map`
parse_rankings(text) ==
    IF json_loads(text).raised THEN Raised
    ELSE priority_map_of(rankings_of(json_loads(text).value))

RECURSIVE response_text(_)
\* the content of the `data: ` lines that parse and hold a choice, joined
response_text(lines) ==
    IF lines = <<>> THEN <<>>
    ELSE (IF Head(lines).data /\ Head(lines).parses /\ Head(lines).has_choice
          THEN Head(lines).content ELSE <<>>) \o response_text(Tail(lines))

\* the returned mapping after the one request: the parsed one, or the default
\* ordering from the except branch
priorities_or_default(affiliations, parsed, slept) ==
    IF parsed.raised
    THEN RankerOutcome(default_priorities(affiliations), 1, slept)
    ELSE RankerOutcome(parsed.value, 1, 0)

get_affiliation_priorities_from_cortex_llm(affiliations, resp) ==
    IF no_affiliations(affiliations) THEN RankerOutcome(<<>>, 0, 0)
    ELSE priorities_or_default(affiliations,
             IF resp.raised \/ resp.status_code >= 400 THEN Raised
             ELSE parse_rankings(response_text(resp.lines)),
             0)

\* time.sleep(100) of the except branch
SLEEP_SECONDS == 100

get_affiliation_priorities_from_llm(affiliations, response) ==
    IF no_affiliations(affiliations) THEN RankerOutcome(<<>>, 0, 0)
    ELSE priorities_or_default(affiliations,
             IF response.raised THEN Raised ELSE parse_rankings(response.content),
             SLEEP_SECONDS)


(***************************************************************************)
(* The calls of the ranker functions.                                      *)
(***************************************************************************)
\* one (key, affiliation_data) tuple of `affiliations`
Affiliation(key) == [key |-> key, aff |-> EmptyDict]

CandidateKeys == {Id7, ai_generated_0, MkInt(8)}

\* affiliations: up to MaxCandidates candidates, no key twice
MaxCandidates == 3

AffiliationLists ==
    {<<>>} \cup
    UNION {{[i \in 1..n |-> Affiliation(f[i])] :
               f \in {g \in [1..n -> CandidateKeys] :
                         \A i, j \in 1..n : g[i] = g[j] => i = j}} :
           n \in 1..MaxCandidates}

Why == MkStr(<<"w", "h", "y">>)

Ranking(key, priority, reason) ==
    JsonObject(("key" :> JsonScalar(key)) @@ ("priority" :> JsonScalar(priority)) @@
               ("reason" :> JsonScalar(reason)))

\* the documents the service may answer with
DocRanked ==
    JsonObject("rankings" :> JsonList(<<Ranking(ai_generated_0, MkInt(1), Why),
                                        Ranking(Id7, MkInt(2), Why)>>))
DocNoRankings == JsonObject(EmptyDict)
DocRankingsObject == JsonObject("rankings" :> JsonObject(EmptyDict))
DocTopLevelList == JsonList(<<>>)
DocNullRankings == JsonObject("rankings" :> JsonNull)
DocNoReason ==
    JsonObject("rankings" :>
        JsonList(<<JsonObject(("key" :> JsonScalar(Id7)) @@
                              ("priority" :> JsonScalar(MkInt(1))))>>))
DocUnknownKey ==
    JsonObject("rankings" :> JsonList(<<Ranking(MkStr(<<"9">>), MkInt(0), Why)>>))
DocTextPriority ==
    JsonObject("rankings" :> JsonList(<<Ranking(Id7, MkStr(<<"1">>), Why)>>))

Documents ==
    {DocRanked, DocNoRankings, DocRankingsObject, DocTopLevelList, DocNullRankings,
     DocNoReason, DocUnknownKey, DocTextPriority}

Whole(doc) == <<Piece(doc, "all")>>

\* response of client.chat.completions.create: it raised, or its content
OpenAIResponse(raised, content) == [raised |-> raised, content |-> content]

OpenAIResponses ==
    {OpenAIResponse(TRUE, <<>>), OpenAIResponse(FALSE, <<>>),
     OpenAIResponse(FALSE, <<Piece(DocRanked, "head")>>)} \cup
    {OpenAIResponse(FALSE, Whole(doc)) : doc \in Documents}

\* one line of resp.text
Line(data, parses, has_choice, content) ==
    [data |-> data, parses |-> parses, has_choice |-> has_choice, content |-> content]

DataLine(content) == Line(TRUE, TRUE, TRUE, content)

\* response of requests.post: it raised (timeout included), or status and text
CortexResponse(raised, status_code, lines) ==
    [raised |-> raised, status_code |-> status_code, lines |-> lines]

Head_ == <<Piece(DocRanked, "head")>>
Tail_ == <<Piece(DocRanked, "tail")>>

CortexResponses ==
    {CortexResponse(TRUE, 200, <<>>),
     CortexResponse(FALSE, 500, <<DataLine(Whole(DocRanked))>>),
     CortexResponse(FALSE, 200, <<>>),
     CortexResponse(FALSE, 200, <<DataLine(Head_), DataLine(Tail_)>>),
     CortexResponse(FALSE, 200,
         <<DataLine(Head_), Line(FALSE, FALSE, FALSE, Tail_), DataLine(Tail_)>>),
     CortexResponse(FALSE, 200,
         <<DataLine(Head_), Line(TRUE, FALSE, FALSE, <<>>), DataLine(Tail_)>>),
     CortexResponse(FALSE, 200,
         <<DataLine(Head_), Line(TRUE, TRUE, FALSE, <<>>), DataLine(Tail_)>>),
     CortexResponse(FALSE, 200, <<DataLine(Head_), Line(FALSE, FALSE, FALSE, Tail_)>>)}
    \cup {CortexResponse(FALSE, 200, <<DataLine(Whole(doc))>>) : doc \in Documents}

\* the requests the call made to the ranking service
RankerRequests(name, out, raised) ==
    IF out.requests = 0 THEN <<>> ELSE <<Call("POST", name, EmptyDict, raised)>>

RankWithCortex ==
    \E affiliations \in AffiliationLists, resp \in CortexResponses :
        LET out == get_affiliation_priorities_from_cortex_llm(affiliations, resp)
        IN /\ op' = "get_affiliation_priorities_from_cortex_llm"
           /\ args' = [affiliations |-> affiliations, response |-> resp]
           /\ result' = out
           /\ calls' = RankerRequests("cortex", out, resp.raised)
           /\ UNCHANGED <<NPI, HCO, HCP_HCO_AFFILIATION, OUTLET_HCO_AFFILIATION, session>>

RankWithOpenAI ==
    \E affiliations \in AffiliationLists, response \in OpenAIResponses :
        LET out == get_affiliation_priorities_from_llm(affiliations, response)
        IN /\ op' = "get_affiliation_priorities_from_llm"
           /\ args' = [affiliations |-> affiliations, response |-> response]
           /\ result' = out
           /\ calls' = RankerRequests("openai", out, response.raised)
           /\ UNCHANGED <<NPI, HCO, HCP_HCO_AFFILIATION, OUTLET_HCO_AFFILIATION, session>>

InitRanker ==
    /\ InitWarehouse(EmptyWarehouse)
    /\ entity_type \in EntityTypes
    /\ proposed_record = EmptyDict
    /\ is_new_record = FALSE
    /\ InitCall

NextRanker == RankWithCortex \/ RankWithOpenAI

SpecRanker == InitRanker /\ [][NextRanker]_vars


(***************************************************************************)
(* Claims about the ranker functions.                                      *)
(***************************************************************************)
RankerOps ==
    {"get_affiliation_priorities_from_cortex_llm", "get_affiliation_priorities_from_llm"}

\* the text the last ranker call read from the response
ResponseText ==
    IF op = "get_affiliation_priorities_from_llm" THEN args.response.content
    ELSE response_text(args.response.lines)

\* the service raised or answered with an error status
ServiceErred ==
    \/ args.response.raised
    \/ op = "get_affiliation_priorities_from_cortex_llm" /\ args.response.status_code >= 400

\* the document is what the request asked for: an object whose "rankings" is
\* a list of objects with key, priority and reason
FollowsSchema(doc) ==
    /\ doc.kind = "object"
    /\ "rankings" \in DOMAIN doc.fields
    /\ doc.fields["rankings"].kind = "list"
    /\ \A i \in 1..Len(doc.fields["rankings"].items) :
           LET ranking == doc.fields["rankings"].items[i]
           IN /\ ranking.kind = "object"
              /\ DOMAIN ranking.fields = {"key", "priority", "reason"}

\* the response is unparseable or malformed
ResponseMalformed ==
    \/ json_loads(ResponseText).raised
    \/ ~FollowsSchema(json_loads(ResponseText).value)

\* priorities 1..n on the candidate keys in their order, with the fixed reason
DefaultOrdering(affiliations) ==
    [i \in 1..Len(affiliations) |->
        [key |-> PyStr(affiliations[i].key),
         value |-> [priority |-> MkInt(i), reason |-> Default_ordering]]]

\* C12 as claimed: when the service errs or its response is unparseable or
\* malformed, the ranker returns the priorities 1..n on the candidate keys in
\* their original order, each with the reason "Default ordering (LLM
\* unavailable)".
C12_FailureGivesDefaultOrdering ==
    (op \in RankerOps /\ (ServiceErred \/ ResponseMalformed))
        => result.map = DefaultOrdering(args.affiliations)

\* the last ranker call went to the fallback: the service erred, or reading
\* the response raised
FellBack == ServiceErred \/ parse_rankings(ResponseText).raised

\* C13: a ranker call makes at most one request to the ranking service; with
\* no candidates it makes none and returns an empty mapping; when the request
\* or the reading of its response fails it returns the default ordering after
\* that one request.
C13_AtMostOneRequest ==
    op \in RankerOps
        => /\ ~result.raised
           /\ result.requests \in {0, 1}
           /\ Len(calls) = result.requests
           /\ args.affiliations = <<>> => (result.requests = 0 /\ result.map = <<>>)
           /\ (args.affiliations # <<>> /\ FellBack)
                  => /\ result.requests = 1
                     /\ result.map = DefaultOrdering(args.affiliations)

\* three candidates and a request that raised: one request, priorities 1, 2, 3
C13_Witness ==
    /\ op = "get_affiliation_priorities_from_cortex_llm"
    /\ Len(args.affiliations) = 3
    /\ args.response.raised
    /\ Len(calls) = 1
    /\ result.map = DefaultOrdering(args.affiliations)
    /\ result.map[3].value.priority = MkInt(3)

\* the keys of the supplied candidates, as the returned mapping names them
SuppliedKeys == {PyStr(args.affiliations[i].key) : i \in 1..Len(args.affiliations)}

\* C14 as claimed: every key of the returned mapping is the key of a supplied
\* candidate and every priority in it is an integer >= 1.
C14_OnlySuppliedKeys ==
    op \in RankerOps
        => \A i \in 1..Len(result.map) :
               /\ result.map[i].key \in SuppliedKeys
               /\ result.map[i].value.priority.t = "int"
               /\ result.map[i].value.priority.n >= 1


(***************************************************************************)
(* The query service (utils/cortex.py): call_cortex_analyst posts the      *)
(* prompt and returns the decoded body, or {"error": ...} when anything in *)
(* its try block raised; parse_analyst_response reads the sql, text and    *)
(* suggestions items of message.content.  Decoded JSON is the document     *)
(* model above; a Python dict is a JSON object, None is JSON null.         *)
(***************************************************************************)
Sql_ == MkStr(<<"s", "q", "l">>)
Text_ == MkStr(<<"t", "e", "x", "t">>)
Suggestions_ == MkStr(<<"s", "u", "g", "g", "e", "s", "t", "i", "o", "n", "s">>)
EmptyStr == MkStr(<<>>)

\* str(e) of the exception call_cortex_analyst raises on an error status
API_error(status_code) ==
    MkStr(<<"A", "P", "I", " ", "e", "r", "r", "o", "r", ":", " ">> \o IntDigits(status_code))

\* str(e) of any other exception of the try block
Request_failed == MkStr(<<"r", "e", "q", "u", "e", "s", "t", " ", "f", "a", "i", "l", "e", "d">>)

\* `if response.status_code >= 400` with the check left out
status_is_error_unchecked(status_code) == FALSE

status_is_error(status_code) == status_code >= 400

\* the try block of call_cortex_analyst: the post, the status check and
\* response.json()
analyst_try(response) ==
    IF response.raised THEN [raised |-> TRUE, value |-> Request_failed]
    ELSE IF status_is_error(response.status_code)
         THEN [raised |-> TRUE, value |-> API_error(response.status_code)]
         ELSE IF json_loads(response.body).raised
              THEN [raised |-> TRUE, value |-> Request_failed]
              ELSE Gave(json_loads(response.body).value)

\* the dict of the except branch
analyst_error(message) == JsonObject("error" :> JsonScalar(message))

call_cortex_analyst(response) ==
    IF analyst_try(response).raised
    THEN Gave(analyst_error(analyst_try(response).value))
    ELSE Gave(analyst_try(response).value)

\* d.get(key, default): AttributeError when d is not a dict
dict_get(d, key, default) ==
    IF d.kind # "object" THEN Raised
    ELSE IF key \in DOMAIN d.fields THEN Gave(d.fields[key])
         ELSE Gave(default)

\* what `for item in content` yields before anything raises: the items of a
\* list; nothing for an empty dict or an empty string; iterating a dict or a
\* string yields strings, other values are not iterable
iterate(content) ==
    CASE content.kind = "list"   -> Gave(content.items)
      [] content.kind = "object" ->
             IF DOMAIN content.fields = {} THEN Gave(<<>>)
             ELSE Gave(<<JsonScalar(EmptyStr)>>)
      [] content.kind = "scalar" ->
             IF content.value.t = "str"
             THEN (IF content.value.s = <<>> THEN Gave(<<>>)
                   ELSE Gave(<<JsonScalar(MkStr(<<content.value.s[1]>>))>>))
             ELSE Raised
      [] OTHER                   -> Raised

\* message.get("content", []) of response.get("message", {})
message_content(response) ==
    IF dict_get(response, "message", JsonObject(EmptyDict)).raised THEN Raised
    ELSE dict_get(dict_get(response, "message", JsonObject(EmptyDict)).value,
                  "content", JsonList(<<>>))

\* the body of the loop for one item (a dict): result after it
parse_item(parsed, item, item_type) ==
    IF item_type = JsonScalar(Sql_)
    THEN [parsed EXCEPT !["sql"] = dict_get(item, "statement", JsonScalar(EmptyStr)).value]
    ELSE IF item_type = JsonScalar(Text_)
    THEN [parsed EXCEPT !["text"] = dict_get(item, "text", JsonScalar(EmptyStr)).value]
    ELSE IF item_type = JsonScalar(Suggestions_)
    THEN [parsed EXCEPT !["suggestions"] = dict_get(item, "suggestions", JsonList(<<>>)).value]
    ELSE parsed

RECURSIVE parse_items(_, _)
\* the loop over content; an item without .get raises, and the except branch
\* keeps what was parsed before it
parse_items(items, parsed) ==
    IF items = <<>> THEN parsed
    ELSE IF items[1].kind # "object" THEN parsed
    ELSE parse_items(Tail(items),
             parse_item(parsed, items[1],
                        dict_get(items[1], "type", JsonScalar(EmptyStr)).value))

\* result = {"sql": None, "text": None, "suggestions": []}
empty_analyst_result ==
    ("sql" :> JsonNull) @@ ("text" :> JsonNull) @@ ("suggestions" :> JsonList(<<>>))

parse_content(content) ==
    IF content.raised \/ iterate(content.value).raised THEN empty_analyst_result
    ELSE parse_items(iterate(content.value).value, empty_analyst_result)

parse_analyst_response(response) == Gave(parse_content(message_content(response)))


(***************************************************************************)
(* The user interface: app.py (sidebar, search prompt, page router),       *)
(* utils/session.py, utils/ui.py (search results), components/table.py,    *)
(* components/enrichment_page.py and components/comparison_table.py.       *)
(* st.session_state is a record of its fixed keys; its field keyed holds   *)
(* the entries whose key is built with an f-string, by that key.  A value  *)
(* that may be None is NoValue or Some(value).  An event is the handler of *)
(* a widget followed by the script run that renders the page.              *)
(***************************************************************************)
NoValue == [is_none |-> TRUE, value |-> <<>>]
Some(value) == [is_none |-> FALSE, value |-> value]

perplexity_response_ ==
    <<"p", "e", "r", "p", "l", "e", "x", "i", "t", "y", "_">> \o
    <<"r", "e", "s", "p", "o", "n", "s", "e", "_">>

empty_record == MkStr(<<"e", "m", "p", "t", "y", "_", "r", "e", "c", "o", "r", "d">>)
New_ == MkStr(<<"N", "E", "W">>)
None_ == <<"N", "o", "n", "e">>

\* f"selected_{entity_type.lower()}_id"
selected_id_key(etype) == IF etype = "HCP" THEN "selected_hcp_id" ELSE "selected_hco_id"

other_selected_key(etype) == IF etype = "HCP" THEN "selected_hco_id" ELSE "selected_hcp_id"

\* the defaults dict of init_data_steward_session_state
data_steward_defaults(etype) ==
    (selected_id_key(etype) :> None) @@
    [messages |-> <<>>, results_df |-> NoValue, selected_record_df |-> NoValue,
     current_view |-> "main", last_prompt |-> None, show_popup |-> FALSE,
     show_confirm_dialog |-> FALSE, priority_rankings_cache |-> EmptyDict,
     approved_cols |-> <<>>, proposed_record |-> NoValue,
     empty_record_for_enrichment |-> NoValue, web_search_query |-> None]

\* init_session_state(defaults, force=True)
init_session_state(state, defaults) ==
    [key \in DOMAIN state |-> IF key \in DOMAIN defaults THEN defaults[key] ELSE state[key]]

\* keys_to_clear with the filter matching nothing
keys_to_clear_none(state) == {}

\* [k for k in st.session_state.keys() if k.startswith("perplexity_response_")]
keys_to_clear(state) ==
    {key \in DOMAIN state.keyed : StartsWith(key, perplexity_response_)}

\* `del st.session_state[key]` for every key of keys
delete_keys(state, keys) ==
    [state EXCEPT !.keyed = [key \in DOMAIN state.keyed \ keys |-> state.keyed[key]]]

\* init_data_steward_session_state(entity_type, force_reset=True)
init_data_steward_session_state(state, etype) ==
    delete_keys(init_session_state([state EXCEPT ![other_selected_key(etype)] = None],
                                   data_steward_defaults(etype)),
                keys_to_clear(state))

\* the session after the first script run: app.py sets assistant_type and
\* calls init_data_steward_session_state("HCP") on the empty session state.  A
\* key that is absent reads as None.
startup_session_state ==
    [assistant_type |-> "HCP", selected_hco_id |-> None, keyed |-> EmptyDict] @@
    data_steward_defaults("HCP")

reset_search_session_state(state, etype) ==
    [state EXCEPT !.messages = <<>>, !.results_df = NoValue,
                  ![selected_id_key(etype)] = None, !.selected_record_df = NoValue]

\* the sidebar selector chose another assistant type
switch_assistant(state, value) ==
    init_data_steward_session_state([state EXCEPT !.assistant_type = value], value)

\* the two messages a new prompt leaves: the prompt and the parsed answer of
\* the query service with the prompt as user_query
search_messages(current_prompt, response) ==
    <<[role |-> "user", content |-> ("text" :> JsonScalar(current_prompt))],
      [role |-> "assistant",
       content |-> ("user_query" :> JsonScalar(MkStr(Strip(current_prompt.s)))) @@
                   parse_analyst_response(call_cortex_analyst(response).value).value]>>

\* render_main_page with a prompt that differs from last_prompt
new_prompt(state, current_prompt, response) ==
    [reset_search_session_state(
        [state EXCEPT !.last_prompt = current_prompt, !.web_search_query = None,
                      !.empty_record_for_enrichment = NoValue,
                      !.selected_record_df = NoValue, !.proposed_record = NoValue,
                      !.approved_cols = <<>>],
        state.assistant_type)
     EXCEPT !.messages = search_messages(current_prompt, response)]

\* the record of the "Still want to proceed with Web Search?" button
empty_record_for_enrichment ==
    [c \in {"ID", "NAME", "NPI", "ADDRESS1", "ADDRESS2", "CITY", "STATE", "ZIP",
            "COUNTRY", "PRIMARY_AFFL_HCO_ACCOUNT_ID", "PRIMARY_AFFL_ACCOUNT_ID"} |->
        IF c = "ID" THEN NotAvailable
        ELSE IF c \in {"PRIMARY_AFFL_HCO_ACCOUNT_ID", "PRIMARY_AFFL_ACCOUNT_ID"} THEN None
        ELSE EmptyStr]

proceed_with_web_search(state) ==
    [state EXCEPT !.web_search_query = state.last_prompt,
                  !.empty_record_for_enrichment = Some(empty_record_for_enrichment),
                  ![selected_id_key(state.assistant_type)] = empty_record,
                  !.current_view = "enrichment_page"]

\* a select button of render_table
select_row(state, row_id) ==
    [state EXCEPT ![selected_id_key(state.assistant_type)] = row_id]

\* "Enrich with AI Assistant"
enrich(state) == [state EXCEPT !.current_view = "enrichment_page"]

\* "Back to Search Results"
back_to_search_results(state) ==
    [state EXCEPT !.current_view = "main", !.selected_record_df = NoValue]

\* set_priority_rankings(cache_key, rankings)
set_priority_rankings(state, cache_key, rankings) ==
    [state EXCEPT !.priority_rankings_cache = (cache_key :> rankings) @@ @]

\* the values of get_field_mapping_for_entity in the order of the mapping
comparison_columns(etype) ==
    IF etype = "HCP"
    THEN <<"Name", "First Name", "Last Name", "NPI", "Degree", "Address Line1",
           "Address Line2", "City", "State", "ZIP">>
    ELSE <<"Name", "Address Line1", "Address Line2", "City", "State", "ZIP", "Country">>

\* the columns whose approve checkbox is ticked, in the order of the mapping
ticked_columns(etype, ticked) ==
    SelectSeq(comparison_columns(etype), LAMBDA col_name : col_name \in ticked)

\* "Insert Record" / "Update Record" with at least one checkbox ticked
request_confirmation(state, approved_cols, proposed) ==
    [state EXCEPT !.show_confirm_dialog = TRUE, !.approved_cols = approved_cols,
                  !.proposed_record = Some(proposed)]

hide_confirm_dialog(state) == [state EXCEPT !.show_confirm_dialog = FALSE]

\* new_record_data of _update_selected_record_after_insert
new_record_data(etype, new_id, proposed, approved_cols) ==
    (IF etype = "HCP"
     THEN [NAME |-> Get(proposed, "Name", Get(proposed, "Last Name", EmptyStr)),
           FIRST_NM |-> Get(proposed, "First Name", EmptyStr),
           LAST_NM |-> Get(proposed, "Last Name", EmptyStr),
           NPI |-> Get(proposed, "NPI", EmptyStr)]
     ELSE [NAME |-> Get(proposed, "Name", EmptyStr)]) @@
    [db_col \in {get_field_to_db_mapping(etype)[approved_cols[i]] :
                    i \in {j \in 1..Len(approved_cols) :
                             approved_cols[j] \in DOMAIN get_field_to_db_mapping(etype)}} |->
        Get(proposed,
            approved_cols[CHOOSE i \in 1..Len(approved_cols) :
                /\ approved_cols[i] \in DOMAIN get_field_to_db_mapping(etype)
                /\ get_field_to_db_mapping(etype)[approved_cols[i]] = db_col
                /\ \A j \in (i + 1)..Len(approved_cols) :
                       approved_cols[j] \in DOMAIN get_field_to_db_mapping(etype) =>
                       get_field_to_db_mapping(etype)[approved_cols[j]] # db_col],
            None)] @@
    [ID |-> new_id]

\* _update_selected_record_after_insert, then the success popup
after_insert(state, new_id) ==
    [state EXCEPT !.selected_record_df =
                      Some(<<new_record_data(state.assistant_type, new_id,
                                             state.proposed_record.value, state.approved_cols)>>),
                  ![selected_id_key(state.assistant_type)] = new_id,
                  !.show_popup = TRUE]

after_update(state) == [state EXCEPT !.show_popup = TRUE]

\* what "Yes, Insert" / "Yes, Update" did: the session state and the entity
\* table after it, and whether st.stop() ended the run
Confirmed(state, table, stopped) == [state |-> state, table |-> table, stopped |-> stopped]

confirmed_commit(state, out, is_new) ==
    IF ~out.success THEN Confirmed(state, out.table, TRUE)
    ELSE Confirmed(hide_confirm_dialog(IF is_new THEN after_insert(state, out.id)
                                                   ELSE after_update(state)),
                   out.table, FALSE)

\* the "confirm_yes" button of render_confirm_dialog
confirm_yes(state, table, selected_record, is_new, fault) ==
    IF state.approved_cols = <<>> THEN Confirmed(hide_confirm_dialog(state), table, FALSE)
    ELSE IF is_new
    THEN confirmed_commit(state,
             insert_record(table, state.assistant_type, state.approved_cols,
                           state.proposed_record.value, fault), TRUE)
    ELSE confirmed_commit(state,
             update_record(table, state.assistant_type, Get(selected_record, "ID", None),
                           state.approved_cols, state.proposed_record.value, fault),
             FALSE)

(***************************************************************************)
(* The script run that renders the page.  A page is what the run showed:   *)
(* its buttons are the events the user can raise next.                     *)
(***************************************************************************)
Page(view, raised, buttons, selectable, selected_record, is_new, record_id, response, proposed) ==
    [view |-> view, raised |-> raised, buttons |-> buttons, selectable |-> selectable,
     selected_record |-> selected_record, is_new_record |-> is_new,
     record_id |-> record_id, response |-> response, proposed_record |-> proposed]

MainPage(buttons, selectable) ==
    Page("main", FALSE, buttons, selectable, EmptyDict, FALSE, None, NoValue, EmptyDict)

\* the run ended with an uncaught exception
CrashedPage(view) ==
    Page(view, TRUE, {}, {}, EmptyDict, FALSE, None, NoValue, EmptyDict)

EnrichmentPage(buttons, selected_record, is_new, record_id, response, proposed) ==
    Page("enrichment_page", FALSE, buttons, {}, selected_record, is_new, record_id,
         response, proposed)

\* a script run: the session state after it, the research requests it made
\* and the page it showed
Rendered(state, requests, page) == [state |-> state, requests |-> requests, page |-> page]

selected_id(state) == state[selected_id_key(state.assistant_type)]

assistant_messages(state) == SelectSeq(state.messages, LAMBDA msg : msg.role = "assistant")

\* results_df[results_df["ID"] == selected_id]
rows_with_id(rows, id) == SelectSeq(rows, LAMBDA row : Get(row, "ID", None) = id)

\* part 2 of display_search_results: the Enrich button shows when the
\* selected identifier is one of the results
selected_details(state, buttons, selectable) ==
    IF /\ Truthy(selected_id(state))
       /\ ~state.results_df.is_none
       /\ rows_with_id(state.results_df.value, selected_id(state)) # <<>>
    THEN Rendered(state, <<>>, MainPage(buttons \cup {"enrich"}, selectable))
    ELSE Rendered(state, <<>>, MainPage(buttons, selectable))

\* the rows of render_table that show a select button
selectable_ids(state) ==
    {Get(state.results_df.value[i], "ID", None) : i \in 1..Len(state.results_df.value)}
        \ {None, selected_id(state)}

result_table(state) ==
    IF ~state.results_df.is_none /\ state.results_df.value # <<>>
    THEN selected_details(state, IF selectable_ids(state) = {} THEN {} ELSE {"select"},
                          selectable_ids(state))
    ELSE selected_details(state, {"web_search"}, {})

\* executed: what execute_sql returned, None (NoValue) when the query failed
search_results(state, sql, executed) ==
    IF sql = JsonNull THEN selected_details(state, {}, {})
    ELSE IF ~state.results_df.is_none THEN result_table(state)
    ELSE IF executed.is_none THEN Rendered(state, <<>>, CrashedPage("main"))
    ELSE IF executed.value # <<>> THEN result_table([state EXCEPT !.results_df = executed])
    ELSE result_table(state)

display_search_results(state, executed) ==
    IF Len(state.messages) = 0 THEN Rendered(state, <<>>, MainPage({}, {}))
    ELSE IF assistant_messages(state) = <<>> THEN Rendered(state, <<>>, CrashedPage("main"))
    ELSE search_results(state,
             assistant_messages(state)[Len(assistant_messages(state))].content["sql"],
             executed)

\* str(selected_record.get("ID", "N/A")) in ['', 'N/A', 'None']
has_no_id(selected_record) ==
    PyStr(Get(selected_record, "ID", NotAvailable)) \in {<<>>, N_A, None_}

page_is_new_record(state, selected_record) ==
    selected_id(state) = empty_record \/ has_no_id(selected_record)

page_record_id(selected_record, is_new) ==
    IF ~is_new THEN Get(selected_record, "ID", NotAvailable) ELSE New_

\* f"perplexity_response_{entity_type}_{record_id}"
cache_key(etype, record_id) ==
    perplexity_response_ \o
    (IF etype = "HCP" THEN <<"H", "C", "P">> ELSE <<"H", "C", "O">>) \o
    <<"_">> \o PyStr(record_id)

\* `if cache_key not in st.session_state` with the entry never found
is_cached_never(state, key) == FALSE

is_cached(state, key) == key \in DOMAIN state.keyed

\* get_val('NAME') or search_query or ''
research_subject(selected_record, search_query) ==
    IF Truthy(Get(selected_record, "NAME", EmptyStr)) THEN Get(selected_record, "NAME", EmptyStr)
    ELSE IF Truthy(search_query) THEN search_query
    ELSE EmptyStr

\* the research service answers about the subject it was asked about
get_consolidated_data(etype, subject) ==
    JsonObject((IF etype = "HCP" THEN "hcp_data" ELSE "hco_data") :>
               JsonObject("Name" :> JsonList(<<JsonScalar(subject)>>)))

\* names[0] if names else default, for entity_data.get(label, [])
first_value(entity_data, label, default) ==
    IF /\ label \in DOMAIN entity_data.fields
       /\ entity_data.fields[label].kind = "list"
       /\ entity_data.fields[label].items # <<>>
    THEN entity_data.fields[label].items[1].value
    ELSE default

transform_perplexity_response_to_record(perplexity_data, etype) ==
    [label \in {comparison_columns(etype)[i] : i \in 1..Len(comparison_columns(etype))} |->
        first_value(dict_get(perplexity_data,
                             IF etype = "HCP" THEN "hcp_data" ELSE "hco_data",
                             JsonObject(EmptyDict)).value,
                    label,
                    IF label = "Address Line2" THEN EmptyStr
                    ELSE IF label = "Country" THEN MkStr(USA)
                    ELSE NotAvailable)]

\* a request to the research service
ResearchCall(key, subject, raised) ==
    [stmt |-> "research", key |-> key, subject |-> subject, raised |-> raised]

\* popups and dialogs, then the comparison table
enrichment_dialogs(state, requests, selected_record, is_new, record_id, response) ==
    IF state.show_popup
    THEN Rendered([state EXCEPT !.show_popup = FALSE], requests,
                  EnrichmentPage({"back"}, selected_record, is_new, record_id, NoValue,
                                 EmptyDict))
    ELSE Rendered(state, requests,
                  EnrichmentPage(IF state.show_confirm_dialog
                                 THEN {"back", "confirm_yes", "confirm_cancel"}
                                 ELSE {"back", "update"},
                                 selected_record, is_new, record_id, Some(response),
                                 transform_perplexity_response_to_record(
                                     response, state.assistant_type)))

\* perplexity_response = st.session_state.get(cache_key) and what follows
enrichment_response(state, requests, selected_record, is_new, record_id, response) ==
    IF response.is_none
    THEN Rendered(state, requests,
                  EnrichmentPage({"back"}, selected_record, is_new, record_id, NoValue,
                                 EmptyDict))
    ELSE enrichment_dialogs(state, requests, selected_record, is_new, record_id,
                            response.value)

\* the try block that fetches: the response is stored under the cache key,
\* None when the request raised
fetched(state, selected_record, is_new, key, fails) ==
    IF fails THEN NoValue
    ELSE Some(get_consolidated_data(state.assistant_type,
                  research_subject(selected_record,
                                   IF is_new THEN state.web_search_query ELSE None)))

enrichment_fetch(state, selected_record, is_new, record_id, key, fails) ==
    IF is_cached(state, key)
    THEN enrichment_response(state, <<>>, selected_record, is_new, record_id,
                             state.keyed[key])
    ELSE enrichment_response(
             [state EXCEPT !.keyed = (key :> fetched(state, selected_record, is_new, key, fails)) @@ @],
             <<ResearchCall(key,
                            research_subject(selected_record,
                                IF is_new THEN state.web_search_query ELSE None),
                            fails)>>,
             selected_record, is_new, record_id,
             fetched(state, selected_record, is_new, key, fails))

enrichment_of(state, selected_record, is_new, fails) ==
    enrichment_fetch(state, selected_record, is_new, page_record_id(selected_record, is_new),
                     cache_key(state.assistant_type, page_record_id(selected_record, is_new)),
                     fails)

render_enrichment_page(state, selected_record_df, fails) ==
    IF selected_record_df = <<>>
    THEN Rendered(state, <<>>,
                  EnrichmentPage({"back"}, EmptyDict, FALSE, None, NoValue, EmptyDict))
    ELSE enrichment_of(state, selected_record_df[1],
                       page_is_new_record(state, selected_record_df[1]), fails)

\* the page router of app.py
render_app(state, executed, fails) ==
    IF state.current_view = "main" THEN display_search_results(state, executed)
    ELSE IF ~state.selected_record_df.is_none /\ state.selected_record_df.value # <<>>
    THEN render_enrichment_page(state, state.selected_record_df.value, fails)
    ELSE IF selected_id(state) = empty_record /\ ~state.empty_record_for_enrichment.is_none
    THEN render_enrichment_page(state, <<state.empty_record_for_enrichment.value>>, fails)
    ELSE IF Truthy(selected_id(state)) /\ ~state.results_df.is_none
    THEN render_enrichment_page(state,
             rows_with_id(state.results_df.value, selected_id(state)), fails)
    ELSE Rendered(state, <<>>,
                  EnrichmentPage({"back_to_main"}, EmptyDict, FALSE, None, NoValue, EmptyDict))


(***************************************************************************)
(* A session of the user interface.  In this specification calls holds the *)
(* requests made to the research service since the assistant type was last *)
(* chosen, in the order they were made; entity_type follows assistant_type.*)
(***************************************************************************)
\* no more than this many research requests are made under one assistant type
MaxCalls == 4

\* no commit of the session changes more than this many rows of the warehouse
MaxChangedRows == 0

\* the rows of table `after` that table `before` does not hold
ChangedRows(after, before) ==
    Cardinality({i \in 1..Len(after) : i > Len(before) \/ after[i] # before[i]})

\* what the steward types into the search box
Prompts == {Ann, Kline}

Select_ == MkStr(<<"S", "E", "L", "E", "C", "T">>)

\* response of requests.post to the query service: it raised, or its status
\* and body
AnalystResponse(raised, status_code, body) ==
    [raised |-> raised, status_code |-> status_code, body |-> body]

SqlItem == JsonObject(("type" :> JsonScalar(Sql_)) @@ ("statement" :> JsonScalar(Select_)))
TextItem == JsonObject(("type" :> JsonScalar(Text_)) @@ ("text" :> JsonScalar(Why)))

AnalystMessage(content) == JsonObject("message" :> JsonObject("content" :> content))

\* the answers of the query service to a search: a statement, or a server
\* error
SearchAnswers ==
    {AnalystResponse(FALSE, 200, Whole(AnalystMessage(JsonList(<<TextItem, SqlItem>>)))),
     AnalystResponse(FALSE, 500, Whole(JsonObject(EmptyDict)))}

\* two Provider records and one Organization record, none linked
SessionWarehouse ==
    Warehouse(<<NpiRow(MkInt(1042), Ann, Npi77, None), NpiRow(MkInt(1043), Kline, Npi88, None)>>,
              <<HcoRow(Sha9, Kline, None)>>, <<>>, <<>>)

\* what execute_sql returns for the statement: None when it failed, no row,
\* or the records of the entity table
Executions(table) == {NoValue, Some(<<>>), Some(table)}

\* the approve checkboxes that are ticked when the button is pressed
TickedSets == {{}, {"Name"}}

InitSession ==
    /\ InitWarehouse(SessionWarehouse)
    /\ entity_type = "HCP"
    /\ proposed_record = EmptyDict
    /\ is_new_record = FALSE
    /\ op = "none"
    /\ args = EmptyDict
    /\ result = MainPage({}, {})
    /\ calls = <<>>
    /\ session_state = startup_session_state

SwitchAssistant ==
    \E value \in EntityTypes \ {session_state.assistant_type} :
        LET run == render_app(switch_assistant(session_state, value), NoValue, FALSE)
        IN /\ session_state' = run.state
           /\ entity_type' = value
           /\ op' = "switch_assistant"
           /\ args' = [value |-> value, keys_to_clear |-> keys_to_clear(session_state)]
           /\ result' = run.page
           /\ calls' = <<>>
           /\ UNCHANGED <<NPI, HCO, HCP_HCO_AFFILIATION, OUTLET_HCO_AFFILIATION,
                          proposed_record, is_new_record>>

Search ==
    \E current_prompt \in Prompts, response \in SearchAnswers,
       executed \in Executions(MainTable) :
        LET run == display_search_results(
                       new_prompt(session_state, current_prompt, response), executed)
        IN /\ session_state.current_view = "main"
           /\ Truthy(current_prompt) /\ current_prompt # session_state.last_prompt
           /\ session_state' = run.state
           /\ op' = "search"
           /\ args' = [current_prompt |-> current_prompt, executed |-> executed]
           /\ result' = run.page
           /\ UNCHANGED <<NPI, HCO, HCP_HCO_AFFILIATION, OUTLET_HCO_AFFILIATION,
                          entity_type, proposed_record, is_new_record, calls>>

SelectRow ==
    \E row_id \in result.selectable, executed \in Executions(MainTable) :
        LET run == render_app(select_row(session_state, row_id), executed, FALSE)
        IN /\ "select" \in result.buttons
           /\ session_state' = run.state
           /\ op' = "select_row"
           /\ args' = [row_id |-> row_id]
           /\ result' = run.page
           /\ UNCHANGED <<NPI, HCO, HCP_HCO_AFFILIATION, OUTLET_HCO_AFFILIATION,
                          entity_type, proposed_record, is_new_record, calls>>

Enrich ==
    \E fails \in BOOLEAN :
        LET run == render_app(enrich(session_state), NoValue, fails)
        IN /\ "enrich" \in result.buttons
           /\ Len(calls) + Len(run.requests) <= MaxCalls
           /\ session_state' = run.state
           /\ op' = "enrich"
           /\ args' = EmptyDict
           /\ result' = run.page
           /\ calls' = calls \o run.requests
           /\ UNCHANGED <<NPI, HCO, HCP_HCO_AFFILIATION, OUTLET_HCO_AFFILIATION,
                          entity_type, proposed_record, is_new_record>>

ProceedWithWebSearch ==
    \E fails \in BOOLEAN :
        LET run == render_app(proceed_with_web_search(session_state), NoValue, fails)
        IN /\ "web_search" \in result.buttons
           /\ Len(calls) + Len(run.requests) <= MaxCalls
           /\ session_state' = run.state
           /\ op' = "proceed_with_web_search"
           /\ args' = EmptyDict
           /\ result' = run.page
           /\ calls' = calls \o run.requests
           /\ UNCHANGED <<NPI, HCO, HCP_HCO_AFFILIATION, OUTLET_HCO_AFFILIATION,
                          entity_type, proposed_record, is_new_record>>

BackToSearchResults ==
    \E executed \in Executions(MainTable) :
        LET run == render_app(back_to_search_results(session_state), executed, FALSE)
        IN /\ "back" \in result.buttons
           /\ session_state' = run.state
           /\ op' = "back_to_search_results"
           /\ args' = EmptyDict
           /\ result' = run.page
           /\ UNCHANGED <<NPI, HCO, HCP_HCO_AFFILIATION, OUTLET_HCO_AFFILIATION,
                          entity_type, proposed_record, is_new_record, calls>>

\* any other interaction on the enrichment page: the script runs again
Rerun ==
    \E fails \in BOOLEAN :
        LET run == render_app(session_state, NoValue, fails)
        IN /\ session_state.current_view = "enrichment_page"
           /\ Len(calls) + Len(run.requests) <= MaxCalls
           /\ session_state' = run.state
           /\ op' = "rerun"
           /\ args' = EmptyDict
           /\ result' = run.page
           /\ calls' = calls \o run.requests
           /\ UNCHANGED <<NPI, HCO, HCP_HCO_AFFILIATION, OUTLET_HCO_AFFILIATION,
                          entity_type, proposed_record, is_new_record>>

\* "Insert Record" / "Update Record" of the comparison table
RequestConfirmation ==
    \E ticked \in TickedSets :
        LET approved_cols == ticked_columns(session_state.assistant_type, ticked)
            run == render_app(IF approved_cols # <<>>
                              THEN request_confirmation(session_state, approved_cols,
                                                        result.proposed_record)
                              ELSE session_state,
                              NoValue, FALSE)
        IN /\ "update" \in result.buttons
           /\ session_state' = run.state
           /\ op' = "request_confirmation"
           /\ args' = [approved_cols |-> approved_cols]
           /\ result' = run.page
           /\ UNCHANGED <<NPI, HCO, HCP_HCO_AFFILIATION, OUTLET_HCO_AFFILIATION,
                          entity_type, proposed_record, is_new_record, calls>>

\* "Yes, Insert" / "Yes, Update" of the confirm dialog, for commits that
\* change at most max_changed_rows rows of the entity table
ConfirmYesWithin(max_changed_rows) ==
    \E fault \in 0..1, fails \in BOOLEAN :
        LET done == confirm_yes(session_state, MainTable, result.selected_record,
                                result.is_new_record, fault)
            run == IF done.stopped
                   THEN Rendered(done.state, <<>>,
                                 [result EXCEPT !.buttons = {"back", "confirm_yes"}])
                   ELSE render_app(done.state, NoValue, fails)
        IN /\ "confirm_yes" \in result.buttons
           /\ Len(done.table) <= MaxRows
           /\ ChangedRows(done.table, MainTable) <= max_changed_rows
           /\ Len(calls) + Len(run.requests) <= MaxCalls
           /\ NPI' = IF entity_type = "HCP" THEN done.table ELSE NPI
           /\ HCO' = IF entity_type = "HCP" THEN HCO ELSE done.table
           /\ session_state' = run.state
           /\ op' = "confirm_yes"
           /\ args' = [fault |-> fault]
           /\ result' = run.page
           /\ calls' = calls \o run.requests
           /\ UNCHANGED <<HCP_HCO_AFFILIATION, OUTLET_HCO_AFFILIATION,
                          entity_type, proposed_record, is_new_record>>

ConfirmYes == ConfirmYesWithin(MaxChangedRows)

ConfirmCancel ==
    LET run == render_app(hide_confirm_dialog(session_state), NoValue, FALSE)
    IN /\ "confirm_cancel" \in result.buttons
       /\ session_state' = run.state
       /\ op' = "confirm_cancel"
       /\ args' = EmptyDict
       /\ result' = run.page
       /\ UNCHANGED <<NPI, HCO, HCP_HCO_AFFILIATION, OUTLET_HCO_AFFILIATION,
                      entity_type, proposed_record, is_new_record, calls>>

\* the rank result of the record on the page is cached under its identifier
SetPriorityRankings ==
    /\ "update" \in result.buttons
    /\ session_state.priority_rankings_cache = EmptyDict
    /\ session_state' = set_priority_rankings(session_state, PyStr(result.record_id),
                                              default_priorities(<<Affiliation(Id7)>>))
    /\ op' = "set_priority_rankings"
    /\ args' = [cache_key |-> PyStr(result.record_id)]
    /\ UNCHANGED <<NPI, HCO, HCP_HCO_AFFILIATION, OUTLET_HCO_AFFILIATION,
                   entity_type, proposed_record, is_new_record, result, calls>>

NextSession ==
    \/ SwitchAssistant
    \/ Search
    \/ SelectRow
    \/ Enrich
    \/ ProceedWithWebSearch
    \/ BackToSearchResults
    \/ Rerun
    \/ RequestConfirmation
    \/ ConfirmYes
    \/ ConfirmCancel
    \/ SetPriorityRankings

SpecSession == InitSession /\ [][NextSession]_vars

(***************************************************************************)
(* Properties of the session of the user interface.                        *)
(***************************************************************************)
\* the cache key of the page that is shown
page_cache_key == cache_key(session_state.assistant_type, result.record_id)

\* C15: between two switches of the assistant type the research service is
\* requested at most once for a cache key (entity kind and record id), however
\* often the enrichment page is rendered again; a request that failed leaves an
\* empty entry under its key and is not repeated either.
C15_OneRequestPerCacheKey ==
    /\ \A i, j \in 1..Len(calls) : calls[i].key = calls[j].key => i = j
    /\ \A i \in 1..Len(calls) :
           /\ calls[i].key \in DOMAIN session_state.keyed
           /\ calls[i].raised => session_state.keyed[calls[i].key].is_none

\* the enrichment page was rendered again for a record whose request had
\* failed: the empty entry was found and no request was made
C15_Witness ==
    /\ op = "rerun"
    /\ result.view = "enrichment_page"
    /\ \E i \in 1..Len(calls) : calls[i].key = page_cache_key /\ calls[i].raised
    /\ \E i \in 1..Len(calls) : calls[i].key # page_cache_key /\ ~calls[i].raised

\* C16: right after the assistant type is switched the session state holds no
\* key that starts with perplexity_response_, the rank cache is empty, the view
\* is the main page, and the selection, the approved fields and the proposed
\* record are cleared.
C16_SwitchClearsSession ==
    op = "switch_assistant" =>
        /\ \A key \in DOMAIN session_state.keyed : ~StartsWith(key, perplexity_response_)
        /\ session_state.priority_rankings_cache = EmptyDict
        /\ session_state.current_view = "main"
        /\ session_state.selected_hcp_id = None
        /\ session_state.selected_hco_id = None
        /\ session_state.selected_record_df = NoValue
        /\ session_state.approved_cols = <<>>
        /\ session_state.proposed_record = NoValue

\* the switch found research responses in the session state and removed them
C16_Witness ==
    /\ op = "switch_assistant"
    /\ args.keys_to_clear # {}
    /\ session_state.keyed = EmptyDict
    /\ session_state.assistant_type = "HCO"

\* the cache key of the record that is selected
selected_cache_key == cache_key(session_state.assistant_type, selected_id(session_state))

\* C17: when a row of another record of the same kind is selected, the cached
\* research response of the record selected before is removed from the session
\* state: a response that stays cached for a stored record is the selected
\* record's.
C17_SelectInvalidatesPrevious ==
    op = "select_row" =>
        \A key \in DOMAIN session_state.keyed :
            key # cache_key(session_state.assistant_type, New_) => key = selected_cache_key

\* C18: the enrichment page of a new record shows a research response that
\* was fetched for the query of the web search that opened it, never the
\* response cached for an earlier query.
C18_ResponseOfTheQuery ==
    (/\ result.view = "enrichment_page"
     /\ result.is_new_record
     /\ ~result.response.is_none) =>
        result.response.value =
            get_consolidated_data(session_state.assistant_type,
                research_subject(result.selected_record, session_state.web_search_query))

\* C19: after "Back to Search Results" the session state holds no proposed
\* record, no approved columns and no pending confirmation dialog.
C19_BackDiscardsProposal ==
    op = "back_to_search_results" =>
        /\ session_state.proposed_record = NoValue
        /\ session_state.approved_cols = <<>>
        /\ ~session_state.show_confirm_dialog


(***************************************************************************)
(* The query service on its own: call_cortex_analyst on a response of the  *)
(* service, then parse_analyst_response on what it returned, as in         *)
(* render_main_page.  In this specification calls holds the response the   *)
(* service gave to the last request.                                       *)
(***************************************************************************)
\* no message.content of the inputs is a list of more than this many items
MaxItems == 2

SuggestionsItem ==
    JsonObject(("type" :> JsonScalar(Suggestions_)) @@
               ("suggestions" :> JsonList(<<JsonScalar(Why)>>)))

\* the items of message.content: the three known types, an sql item without
\* its statement, and items that are not objects
ContentItems ==
    {SqlItem, TextItem, SuggestionsItem, JsonObject("type" :> JsonScalar(Sql_)),
     JsonScalar(Why), JsonNull}

ContentLists ==
    {<<>>} \cup UNION {[1..n -> ContentItems] : n \in 1..MaxItems}

\* the documents the service answers with: with a message.content list, and
\* without one
AnalystDocuments ==
    {AnalystMessage(JsonList(content)) : content \in ContentLists} \cup
    {AnalystMessage(JsonNull), AnalystMessage(JsonScalar(MkInt(5))),
     AnalystMessage(JsonObject("type" :> JsonScalar(Sql_))),
     JsonObject("message" :> JsonObject(EmptyDict)),
     JsonObject("message" :> JsonNull),
     JsonObject("message" :> JsonScalar(Why)),
     JsonObject(EmptyDict), JsonList(<<>>), JsonNull}

\* the request raised, or the status and the body of the answer: a document,
\* or text that is no JSON document
AnalystResponses ==
    {AnalystResponse(TRUE, 0, <<>>)} \cup
    {AnalystResponse(FALSE, status_code, body) :
        status_code \in {200, 400, 500},
        body \in {<<>>, <<Piece(SqlItem, "head")>>} \cup
                 {Whole(doc) : doc \in AnalystDocuments}}

InitAnalyst ==
    /\ InitWarehouse(EmptyWarehouse)
    /\ entity_type = "HCP"
    /\ proposed_record = EmptyDict
    /\ is_new_record = FALSE
    /\ InitCall

CallCortexAnalyst ==
    \E response \in AnalystResponses :
        /\ op' = "call_cortex_analyst"
        /\ args' = [response |-> response]
        /\ result' = call_cortex_analyst(response)
        /\ calls' = <<response>>
        /\ UNCHANGED <<NPI, HCO, HCP_HCO_AFFILIATION, OUTLET_HCO_AFFILIATION, session>>

\* parse_analyst_response(call_cortex_analyst(...))
ParseAnalystResponse ==
    /\ op = "call_cortex_analyst"
    /\ ~result.raised
    /\ op' = "parse_analyst_response"
    /\ args' = [response |-> result.value]
    /\ result' = parse_analyst_response(result.value)
    /\ UNCHANGED <<NPI, HCO, HCP_HCO_AFFILIATION, OUTLET_HCO_AFFILIATION, session, calls>>

NextAnalyst == CallCortexAnalyst \/ ParseAnalystResponse

SpecAnalyst == InitAnalyst /\ [][NextAnalyst]_vars

(***************************************************************************)
(* Properties of the query service.                                        *)
(***************************************************************************)
\* the document has the expected message content: a list under
\* message.content
HasMessageContent(doc) ==
    /\ doc.kind = "object"
    /\ "message" \in DOMAIN doc.fields
    /\ doc.fields["message"].kind = "object"
    /\ "content" \in DOMAIN doc.fields["message"].fields
    /\ doc.fields["message"].fields["content"].kind = "list"

\* the query service failed: the request raised, the status is an error, or
\* the payload is no document with the expected message content
ServiceFailed(response) ==
    \/ response.raised
    \/ response.status_code >= 400
    \/ json_loads(response.body).raised
    \/ ~HasMessageContent(json_loads(response.body).value)

\* C20: no failure of the query service raises out of call_cortex_analyst or
\* parse_analyst_response; the parsed result has exactly the keys sql, text
\* and suggestions, and when the service failed its sql is None and its
\* suggestions are [].
C20_AnalystFailureIsAResult ==
    /\ op \in {"call_cortex_analyst", "parse_analyst_response"} => ~result.raised
    /\ op = "parse_analyst_response" =>
           /\ DOMAIN result.value = {"sql", "text", "suggestions"}
           /\ ServiceFailed(calls[1]) =>
                  /\ result.value["sql"] = JsonNull
                  /\ result.value["suggestions"] = JsonList(<<>>)

\* the service answered with status 500 and a body that holds a statement
\* and suggestions; the parsed result has neither
C20_Witness ==
    /\ op = "parse_analyst_response"
    /\ calls = <<AnalystResponse(FALSE, 500,
                     Whole(AnalystMessage(JsonList(<<SqlItem, SuggestionsItem>>))))>>
    /\ args.response = analyst_error(API_error(500))
    /\ result = Gave(empty_analyst_result)


(***************************************************************************)
(* The value normalizers and the comparison table:                         *)
(* components/detail_layout.py get_safe_value, get_val of                  *)
(* transform_current_record_for_comparison and the rows of                 *)
(* render_comparison_table (components/comparison_table.py).  A record is  *)
(* a dict: a function from its keys.  NaN is the one float of the inputs.  *)
(***************************************************************************)
\* a float: s is what str() gives, n is 1 when it is true in a condition
MkFloat(chars, truth) == [t |-> "float", s |-> chars, n |-> truth]

\* float('nan') and 0.0
NaN == MkFloat(<<"n", "a", "n">>, 1)
ZeroFloat == MkFloat(<<"0", ".", "0">>, 0)

\* value is None or (isinstance(value, float) and pd.isna(value))
is_missing(value) == value = None \/ (value.t = "float" /\ value = NaN)

\* f"{fallback_prefix}{key}"
fallback_key(fallback_prefix, key) == fallback_prefix \o key

\* record.get(key), then record.get(fallback_key) when the value is None/NaN
\* and a prefix was given.  The prefix "" stands for None as well: both are
\* false in the condition.
looked_up(record, key, fallback_prefix) ==
    IF is_missing(Get(record, key, None)) /\ fallback_prefix # ""
    THEN Get(record, fallback_key(fallback_prefix, key), None)
    ELSE Get(record, key, None)

\* str(value).strip(), 'N/A' when it is empty
stripped_or_na(value) ==
    IF Strip(PyStr(value)) # <<>> THEN MkStr(Strip(PyStr(value))) ELSE MkStr(N_A)

safe_value_of(value) == IF is_missing(value) THEN MkStr(N_A) ELSE stripped_or_na(value)

get_safe_value(record, key, fallback_prefix) ==
    safe_value_of(looked_up(record, key, fallback_prefix))

\* get_val of transform_current_record_for_comparison on record.get(key, "N/A")
get_val_of(val) ==
    IF val = None \/ (val.t = "float" /\ PyStr(val) = <<"n", "a", "n">>) THEN MkStr(N_A)
    ELSE IF Truthy(val) THEN MkStr(Strip(PyStr(val)))
    ELSE MkStr(N_A)

get_val(record, key) == get_val_of(Get(record, key, MkStr(N_A)))

\* the cell of one record for one data key: record.get(col_name, "N/A") if
\* record else "N/A", and "N/A" for None and ""
cell_value_unmarked(record, col_name) ==
    IF record.is_none THEN None ELSE Get(record.value, col_name, None)

cell_value(record, col_name) ==
    IF record.is_none \/ DOMAIN record.value = {} THEN MkStr(N_A)
    ELSE IF Get(record.value, col_name, MkStr(N_A)) \in {None, MkStr(<<>>)} THEN MkStr(N_A)
    ELSE Get(record.value, col_name, MkStr(N_A))

\* one entry of field_mapping.items()
FieldEntry(field_label, col_name) == [field_label |-> field_label, col_name |-> col_name]

\* one data row of the table
ComparisonRow(field_label, current_val, proposed_val) ==
    [field_label |-> field_label, current_val |-> current_val, proposed_val |-> proposed_val]

\* the data rows of render_comparison_table, in the order they are rendered
comparison_rows(current_record, proposed, field_mapping) ==
    [i \in 1..Len(field_mapping) |->
        ComparisonRow(field_mapping[i].field_label,
                      cell_value(current_record, field_mapping[i].col_name),
                      cell_value(proposed, field_mapping[i].col_name))]

(***************************************************************************)
(* The normalizers and the comparison table on their own.                  *)
(***************************************************************************)
\* no raw string of the inputs is longer than this
MaxLen == 3

\* the raw values: None, NaN, 0.0, numbers, 'N/A', and every string of
\* blanks and letters up to MaxLen
RawValues ==
    {None, NaN, ZeroFloat, MkInt(0), MkInt(7), PyFalse, MkStr(N_A)} \cup
    {MkStr(chars) : chars \in UNION {[1..n -> {" ", "A"}] : n \in 0..MaxLen}}

\* the optional fallback_prefix of get_safe_value
FallbackPrefixes == {"", "HCO_"}

\* records of the comparison: None, {}, and dicts with some of the data keys
ComparedRecords ==
    {NoValue, Some(EmptyDict), Some([Name |-> Ann]), Some([Name |-> None, City |-> MkStr(<<>>)]),
     Some([Name |-> Kline, City |-> Oak, ZIP |-> MkStr(N_A)])}

MappingEntries ==
    {FieldEntry("Name", "Name"), FieldEntry("City", "City"), FieldEntry("ZIP Code", "ZIP")}

\* the field mappings: the entries in any order, none twice
FieldMappings ==
    {field_mapping \in UNION {[1..n -> MappingEntries] : n \in 0..3} :
        \A i, j \in 1..Len(field_mapping) : field_mapping[i] = field_mapping[j] => i = j}

InitComparison ==
    /\ InitWarehouse(EmptyWarehouse)
    /\ entity_type = "HCP"
    /\ proposed_record = EmptyDict
    /\ is_new_record = FALSE
    /\ InitCall

GetSafeValue ==
    \E value \in RawValues, fallback \in RawValues, fallback_prefix \in FallbackPrefixes :
        /\ op' = "get_safe_value"
        /\ args' = [record |-> [NAME |-> value, HCO_NAME |-> fallback],
                    key |-> "NAME", fallback_prefix |-> fallback_prefix]
        /\ result' = get_safe_value([NAME |-> value, HCO_NAME |-> fallback], "NAME",
                                    fallback_prefix)
        /\ UNCHANGED <<NPI, HCO, HCP_HCO_AFFILIATION, OUTLET_HCO_AFFILIATION, session, calls>>

GetVal ==
    \E record \in {EmptyDict} \cup {[NAME |-> value] : value \in RawValues} :
        /\ op' = "get_val"
        /\ args' = [record |-> record, key |-> "NAME"]
        /\ result' = get_val(record, "NAME")
        /\ UNCHANGED <<NPI, HCO, HCP_HCO_AFFILIATION, OUTLET_HCO_AFFILIATION, session, calls>>

RenderComparisonTable ==
    \E current_record \in ComparedRecords, proposed \in ComparedRecords,
       field_mapping \in FieldMappings :
        /\ op' = "render_comparison_table"
        /\ args' = [current_record |-> current_record, proposed_record |-> proposed,
                    field_mapping |-> field_mapping]
        /\ result' = comparison_rows(current_record, proposed, field_mapping)
        /\ UNCHANGED <<NPI, HCO, HCP_HCO_AFFILIATION, OUTLET_HCO_AFFILIATION, session, calls>>

NextComparison == GetSafeValue \/ GetVal \/ RenderComparisonTable

SpecComparison == InitComparison /\ [][NextComparison]_vars

\* C21: the normalizers are idempotent: get_safe_value and get_val applied
\* to a record that holds their own output give that output again, for None,
\* NaN, the empty string, blank strings, 'N/A' and every other value.
C21_NormalizeIdempotent ==
    /\ op = "get_safe_value" =>
           get_safe_value([args.record EXCEPT ![args.key] = result], args.key,
                          args.fallback_prefix) = result
    /\ op = "get_val" => get_val((args.key :> result), args.key) = result

\* C22: the comparison table has one row per entry of the field mapping, in
\* the order of the mapping, and a data key that the proposed or the current
\* record does not hold gives 'N/A' in its row.
C22_OneRowPerMappingEntry ==
    op = "render_comparison_table" =>
        /\ Len(result) = Len(args.field_mapping)
        /\ \A i \in 1..Len(result) :
               /\ result[i].field_label = args.field_mapping[i].field_label
               /\ (args.proposed_record.is_none \/
                   args.field_mapping[i].col_name \notin DOMAIN args.proposed_record.value)
                      => result[i].proposed_val = MkStr(N_A)
               /\ (args.current_record.is_none \/
                   args.field_mapping[i].col_name \notin DOMAIN args.current_record.value)
                      => result[i].current_val = MkStr(N_A)

\* a table of three rows whose proposed record holds only the name
C22_Witness ==
    /\ op = "render_comparison_table"
    /\ Len(args.field_mapping) = 3
    /\ args.field_mapping[1].col_name = "ZIP"
    /\ args.proposed_record = Some([Name |-> Ann])
    /\ args.current_record = Some([Name |-> Kline, City |-> Oak, ZIP |-> MkStr(N_A)])
    /\ result[1].proposed_val = MkStr(N_A)
    /\ result[3].proposed_val \in {Ann, MkStr(N_A)}
    /\ Len(result) = 3

(***************************************************************************)
(* The Affiliation Merger.  enrichment_page.py builds the affiliation list *)
(* of the entity with build_affiliations_dict of                           *)
(* components/affiliation_table.py; the merger itself follows its contract *)
(* merge(db_candidates, ai_candidates, self_entity).                       *)
(***************************************************************************)
ABSENT == None

\* the normalizer as a value-or-ABSENT function: 'N/A' is the absent marker
normalize(value) ==
    IF safe_value_of(value) = MkStr(N_A) THEN ABSENT ELSE safe_value_of(value)

\* the identifier that stands for "not known"
UNKNOWN == <<"u", "n", "k", "n", "o", "w", "n">>

AFFILIATION_FIELDS ==
    {"HCO ID", "HCO NAME", "HCO ADDRESS", "HCO CITY", "HCO STATE", "HCO ZIP"}

is_placeholder(identifier) ==
    normalize(identifier) # ABSENT /\ Lower(normalize(identifier).s) = UNKNOWN

\* the identifier when there is a real one, else name + city/state/zip
composite_key(row) ==
    IF normalize(Get(row, "HCO ID", None)) # ABSENT /\ ~is_placeholder(Get(row, "HCO ID", None))
    THEN normalize(Get(row, "HCO ID", None)).s
    ELSE normalize(Get(row, "HCO NAME", None)).s \o <<"|">> \o
         normalize(Get(row, "HCO CITY", None)).s \o <<"|">> \o
         normalize(Get(row, "HCO STATE", None)).s \o <<"|">> \o
         normalize(Get(row, "HCO ZIP", None)).s

AffiliationCandidate(row, provenance) ==
    [key |-> composite_key(row), provenance |-> provenance,
     fields |-> [f \in AFFILIATION_FIELDS |-> normalize(Get(row, f, None))]]

\* same normalized name AND same normalized address as the entity
is_self_match(row, self_entity) ==
    /\ normalize(Get(row, "HCO NAME", None)) = normalize(Get(self_entity, "Name", None))
    /\ normalize(Get(row, "HCO ADDRESS", None)) =
           normalize(Get(self_entity, "Address Line1", None))

is_discarded(row, self_entity) ==
    is_placeholder(Get(row, "HCO ID", None)) \/ is_self_match(row, self_entity)

\* field by field: the existing value where it is not ABSENT
merge_fields_incoming(existing, incoming) ==
    [f \in AFFILIATION_FIELDS |-> IF incoming[f] # ABSENT THEN incoming[f] ELSE existing[f]]

merge_fields(existing, incoming) ==
    [f \in AFFILIATION_FIELDS |-> IF existing[f] # ABSENT THEN existing[f] ELSE incoming[f]]

\* result[key] = candidate for a database candidate
insert_db_candidate(merged, candidate) ==
    IF \E i \in 1..Len(merged) : merged[i].key = candidate.key
    THEN [i \in 1..Len(merged) |-> IF merged[i].key = candidate.key THEN candidate ELSE merged[i]]
    ELSE Append(merged, candidate)

\* an AI candidate fills the entry of its key, or is appended as a new one
insert_ai_candidate(merged, candidate) ==
    IF \E i \in 1..Len(merged) : merged[i].key = candidate.key
    THEN [i \in 1..Len(merged) |->
             IF merged[i].key = candidate.key
             THEN [merged[i] EXCEPT !.fields = merge_fields(merged[i].fields, candidate.fields)]
             ELSE merged[i]]
    ELSE Append(merged, candidate)

RECURSIVE insert_db_rows(_, _)
insert_db_rows(merged, db_candidates) ==
    IF db_candidates = <<>> THEN merged
    ELSE insert_db_rows(
             insert_db_candidate(merged, AffiliationCandidate(Head(db_candidates), "database")),
             Tail(db_candidates))

RECURSIVE insert_ai_rows(_, _, _)
insert_ai_rows(merged, ai_candidates, self_entity) ==
    IF ai_candidates = <<>> THEN merged
    ELSE insert_ai_rows(
             IF is_discarded(Head(ai_candidates), self_entity) THEN merged
             ELSE insert_ai_candidate(
                      merged, AffiliationCandidate(Head(ai_candidates), "generated-by-ai")),
             Tail(ai_candidates), self_entity)

merge(db_candidates, ai_candidates, self_entity) ==
    insert_ai_rows(insert_db_rows(<<>>, db_candidates), ai_candidates, self_entity)

\* entity_name = current_record.get('Name', '') or record_name
entity_name_of(current_record, record_name) ==
    IF Truthy(Get(current_record, "Name", MkStr(<<>>)))
    THEN Get(current_record, "Name", MkStr(<<>>))
    ELSE record_name

\* the call of the enrichment page: the database rows of an existing record
\* only, and of the entity its name and nothing else
build_affiliations_dict(db_affiliations_df, ai_affiliations, entity_name) ==
    merge(db_affiliations_df, ai_affiliations, "Name" :> entity_name)

all_affiliations(db_rows, ai_affiliations, current_record, record_name, new_record) ==
    build_affiliations_dict(IF new_record THEN <<>> ELSE db_rows, ai_affiliations,
                            entity_name_of(current_record, record_name))

\* the longest list of candidates of one source
MaxCandidateRows == 2

X_City == MkStr(<<"X">>)
Acme == MkStr(<<"A", "c", "m", "e">>)
Id5 == MkStr(<<"5">>)

RawRow(id, name, address, city) ==
    ("HCO ID" :> id) @@ ("HCO NAME" :> name) @@ ("HCO ADDRESS" :> address) @@
    ("HCO CITY" :> city)

\* rows of the web research: with or without an identifier, address and
\* city, and one with the identifier "unknown"
RawRows ==
    { RawRow(id, name, address, city) :
          id \in {None, Id5}, name \in {Acme, Mercy},
          address \in {None, Elm}, city \in {NotAvailable, X_City} } \cup
    { RawRow(MkStr(UNKNOWN), Acme, None, X_City) }

AiRowLists == UNION {[1..n -> RawRows] : n \in 1..MaxCandidateRows}

\* rows of the affiliation table, which holds no address
DbRowLists ==
    { <<>>, <<RawRow(Id5, Acme, None, NotAvailable)>>, <<RawRow(Id5, Mercy, None, X_City)>>,
      <<RawRow(None, Mercy, None, X_City)>>, <<RawRow(None, Acme, None, NotAvailable)>> }

\* the entity being enriched, as the comparison shows it
EnrichedEntities ==
    { ("Name" :> Mercy) @@ ("Address Line1" :> Elm),
      ("Name" :> NotAvailable) @@ ("Address Line1" :> Elm) }

\* the inputs of one page: the rows of the two sources and the entity
MergerInputs ==
    [db_candidates : DbRowLists, ai_candidates : AiRowLists, self_entity : EnrichedEntities]

InitMerger ==
    /\ InitWarehouse(EmptyWarehouse)
    /\ entity_type = "HCO"
    /\ proposed_record = EmptyDict
    /\ is_new_record \in BOOLEAN
    /\ op = "none"
    /\ args \in MergerInputs
    /\ result = <<>>
    /\ calls = <<>>
    /\ session_state = EmptyDict

\* the merger on its own, given the whole entity
Merge ==
    /\ op = "none"
    /\ ~is_new_record
    /\ op' = "merge"
    /\ result' = merge(args.db_candidates, args.ai_candidates, args.self_entity)
    /\ UNCHANGED <<NPI, HCO, HCP_HCO_AFFILIATION, OUTLET_HCO_AFFILIATION, session, calls, args>>

\* the affiliation section of render_enrichment_page: the entity is the
\* current record of the comparison
RenderAffiliations ==
    /\ op = "none"
    /\ op' = "render_enrichment_page"
    /\ args' = [args EXCEPT !.db_candidates = IF is_new_record THEN <<>> ELSE @]
    /\ result' = all_affiliations(args.db_candidates, args.ai_candidates, args.self_entity,
                                  Kline, is_new_record)
    /\ UNCHANGED <<NPI, HCO, HCP_HCO_AFFILIATION, OUTLET_HCO_AFFILIATION, session, calls>>

NextMerger == Merge \/ RenderAffiliations

SpecMerger == InitMerger /\ [][NextMerger]_vars

\* the entries of the merged set under one key
EntriesOf(merged, key) == {i \in 1..Len(merged) : merged[i].key = key}

\* the AI candidates of the call that were not discarded and have this key
KeptAiRows(key) ==
    {i \in 1..Len(args.ai_candidates) :
        /\ ~is_discarded(args.ai_candidates[i], args.self_entity)
        /\ composite_key(args.ai_candidates[i]) = key}

\* C23: a database candidate and an AI candidate with the same composite key
\* give one entry of provenance "database", which keeps every value the
\* database row has and takes from the AI only what the database left absent.
C23_CollisionKeepsDatabase ==
    op = "merge" =>
        \A d \in 1..Len(args.db_candidates) :
            LET key == composite_key(args.db_candidates[d])
                row == args.db_candidates[d]
            IN KeptAiRows(key) # {} =>
                   /\ Cardinality(EntriesOf(result, key)) = 1
                   /\ \A e \in EntriesOf(result, key) :
                          /\ result[e].provenance = "database"
                          /\ \A f \in AFFILIATION_FIELDS :
                                 IF normalize(Get(row, f, None)) # ABSENT
                                 THEN result[e].fields[f] = normalize(Get(row, f, None))
                                 ELSE \/ result[e].fields[f] = ABSENT
                                      \/ \E a \in KeptAiRows(key) :
                                             result[e].fields[f] =
                                                 normalize(Get(args.ai_candidates[a], f, None))

\* the example of the contract: db {id 5, Acme}, ai {id 5, Mercy, city X}
C23_Witness ==
    /\ op = "merge"
    /\ Len(args.db_candidates) = 1
    /\ args.db_candidates[1]["HCO NAME"] = Acme
    /\ args.db_candidates[1]["HCO CITY"] = NotAvailable
    /\ KeptAiRows(<<"5">>) # {}
    /\ \E e \in EntriesOf(result, <<"5">>) :
           /\ result[e].fields["HCO NAME"] = Acme
           /\ result[e].fields["HCO CITY"] = X_City

\* C24: the merged set of the enrichment flow never holds an AI candidate
\* whose normalized name and address are those of the entity being enriched.
C24_NoSelfAffiliation ==
    op = "render_enrichment_page" =>
        \A a \in 1..Len(args.ai_candidates) :
            is_self_match(args.ai_candidates[a], args.self_entity) =>
                \A e \in 1..Len(result) :
                    ~(/\ result[e].key = composite_key(args.ai_candidates[a])
                      /\ result[e].provenance = "generated-by-ai")

\* the merger itself drops the candidate when it is given the whole entity
C24_MergeDropsSelf ==
    op = "merge" =>
        \A a \in 1..Len(args.ai_candidates) :
            is_self_match(args.ai_candidates[a], args.self_entity) =>
                \A e \in 1..Len(result) :
                    result[e].provenance = "generated-by-ai" =>
                        \E b \in 1..Len(args.ai_candidates) :
                            /\ ~is_self_match(args.ai_candidates[b], args.self_entity)
                            /\ composite_key(args.ai_candidates[b]) = result[e].key

\* C25: a search whose SQL statement fails in the storage shows the page with
\* the "no records" notice (and its web-search button) and does not raise.
C25_FailedSearchShowsNoRecords ==
    (/\ op = "search"
     /\ assistant_messages(session_state)[1].content["sql"] # JsonNull
     /\ args.executed.is_none) =>
        ~result.raised /\ "web_search" \in result.buttons

\* C26: set_primary_affiliation never raises, whatever the candidate data:
\* with no candidate mapping (None) or a SOURCE that is present but null it
\* still returns its (success, id, message) tuple.
C26_SetPrimaryNeverRaises == op = "set_primary_affiliation" => ~result.raised

\* C28: a call of set_primary_affiliation that returns failure leaves the
\* storage as it was: no affiliation row has been inserted when the pointer
\* update that follows fails or matches no row of the entity.
C28_FailureLeavesStorage ==
    [][(op' = "set_primary_affiliation" /\ ~result'.raised /\ ~result'.success) =>
           UNCHANGED <<NPI, HCO, HCP_HCO_AFFILIATION, OUTLET_HCO_AFFILIATION>>]_vars

(***************************************************************************)
(* The identifiers of generated affiliation rows.  The affiliation table   *)
(* of the Providers may hold identifiers that are not numbers.             *)
(***************************************************************************)
MixedWarehouse ==
    Warehouse(<<NpiRow(MkInt(1042), Ann, Npi77, Sha5)>>,
              <<HcoRow(Sha5, Mercy, MkInt(3))>>,
              <<HcpAffiliationRow(MkInt(1042), Npi77, Sha5, Mercy)>>,
              <<OutletRow(Sha5, MkInt(3), Mercy)>>)

InitGeneratedIds ==
    /\ \E w \in {UnlinkedWarehouse, LinkedWarehouse, MixedWarehouse} : InitWarehouse(w)
    /\ entity_type \in EntityTypes
    /\ proposed_record = EmptyDict
    /\ is_new_record = FALSE
    /\ InitCall

SpecGeneratedIds == InitGeneratedIds /\ [][NextAffiliations]_vars

\* the candidate is AI-sourced: by its key or by its SOURCE
AiSourcedCandidate(candidate) ==
    \/ StartsWith(PyStr(candidate.hco_id), ai_generated_)
    \/ (~candidate.hco_data.none /\
        Get(candidate.hco_data.kv, "SOURCE", None) = MkStr(Generated_by_AI))

\* the rows the call has inserted into the affiliation table
InsertedRows(storage_calls) ==
    {storage_calls[i].written :
        i \in {j \in 1..Len(storage_calls) :
                  storage_calls[j].stmt = "INSERT" /\ ~storage_calls[j].raised}}

\* C30: the identifier generated for an AI-sourced affiliation row is
\* greater than every numeric identifier the affiliation table holds when it
\* is generated (identifiers that are not numbers are ignored for Providers)
\* and equals none of the table's identifiers.
C30_GeneratedIdAboveAll ==
    [][(op' = "set_primary_affiliation" /\ AiSourcedCandidate(args'.candidate)) =>
        \A written \in InsertedRows(calls') :
            IF entity_type = "HCP"
            THEN /\ IsDigits(written["HCO_ID"].s)
                 /\ \A i \in Indices(HCP_HCO_AFFILIATION) :
                        /\ HCP_HCO_AFFILIATION[i]["HCO_ID"] # written["HCO_ID"]
                        /\ IsDigits(PyStr(HCP_HCO_AFFILIATION[i]["HCO_ID"])) =>
                               DigitsVal(written["HCO_ID"].s) >
                                   DigitsVal(PyStr(HCP_HCO_AFFILIATION[i]["HCO_ID"]))
            ELSE \A i \in Indices(OUTLET_HCO_AFFILIATION) :
                     written["OUTLET_ID"].n > OUTLET_HCO_AFFILIATION[i]["OUTLET_ID"].n]_vars

\* a second AI-sourced commit of a session, or one into a table that holds an
\* identifier that is not a number: the table has two rows, the last one
\* generated by the call
C30_Witness ==
    /\ op = "set_primary_affiliation"
    /\ AiSourcedCandidate(args.candidate)
    /\ result.success
    /\ InsertedRows(calls) # {}
    /\ Len(AffiliationTable) = 2
    /\ entity_type = "HCP" => AffiliationTable[2]["HCO_ID"] = result.id

\* C27: when 'Yes' of the confirm dialog commits, the approved columns and
\* the proposed record it passes were captured on the comparison table of the
\* record being committed: the proposal held by the session is the one the
\* page shows for its record, also after Back and the selection of another
\* entity while the dialog flag is set.
C27_ConfirmCommitsOwnProposal ==
    [][(op' = "confirm_yes" /\ session_state.approved_cols # <<>>) =>
           session_state.proposed_record = Some(result.proposed_record)]_vars

(***************************************************************************)
(* The new-record flow.  The session starts where a first search has       *)
(* found no record in an empty entity table, and no other search is made:  *)
(* every row of the table has been inserted by the flow.                   *)
(***************************************************************************)
\* rows one commit of the flow may write
MaxCommittedRows == 1

FirstSearch ==
    display_search_results(
        new_prompt(startup_session_state, Ann,
                   AnalystResponse(FALSE, 200,
                                   Whole(AnalystMessage(JsonList(<<TextItem, SqlItem>>))))),
        Some(<<>>))

InitNewRecord ==
    /\ InitWarehouse(EmptyWarehouse)
    /\ entity_type = "HCP"
    /\ proposed_record = EmptyDict
    /\ is_new_record = FALSE
    /\ op = "search"
    /\ args = [current_prompt |-> Ann, executed |-> Some(<<>>)]
    /\ result = FirstSearch.page
    /\ calls = <<>>
    /\ session_state = FirstSearch.state

ConfirmYesNewRecord == ConfirmYesWithin(MaxCommittedRows)

NextNewRecord ==
    \/ ProceedWithWebSearch
    \/ RequestConfirmation
    \/ ConfirmYesNewRecord
    \/ ConfirmCancel
    \/ BackToSearchResults
    \/ SelectRow
    \/ Enrich
    \/ Rerun

SpecNewRecord == InitNewRecord /\ [][NextNewRecord]_vars

\* C29: in the new-record flow a second INSERT never happens before a new
\* search: once the flow has inserted its record, the selected identifier is
\* the new one and every later confirm updates that record.
C29_OneInsertPerFlow ==
    [][(op' = "confirm_yes" /\ Len(MainTable') > Len(MainTable)) => MainTable = <<>>]_vars

\* right after the insert the page is the one of the inserted record
C29_InsertSelectsNewId ==
    (op = "confirm_yes" /\ Len(MainTable) = 1 /\ ~result.raised /\ "update" \in result.buttons) =>
        /\ selected_id(session_state) = MainTable[1]["ID"]
        /\ ~result.is_new_record

====
